---- MODULE Spec2Model ----
(***************************************************************************)
(* html-vegalite: a model of the tag strategy registry, the HTML parser's  *)
(* token walk and the text layout engine.                                  *)
(*                                                                         *)
(* Three specifications share the variables below:                         *)
(*   SpecRegistry  TagStrategyRegistry under register / remove / clear     *)
(*   SpecParse     HTMLParser.parseHTML, one step per token of the walk    *)
(*   SpecLayout    TextLayoutEngine.layoutSegments, one step per segment   *)
(*                                                                         *)
(* Conventions.  Strings that the code takes apart (segment text) are      *)
(* sequences of one-character strings.  Lengths are integers in units of   *)
(* 1/100000 px, so that 0.6, 1.15, 1.05, 0.75, 1.2 and 1.4 are exact.      *)
(* An absent optional field (fontSize, listType) is 0 or "".               *)
(***************************************************************************)
EXTENDS Integers, Sequences, FiniteSets, TLC

VARIABLES
  registry,      \* TagStrategyRegistry.strategies: lowercase tag name -> handler instance
  pre,           \* the registry as it was when the last registry call began
  call,          \* the last registry call: operation, argument, looked-up strategy, return value
  html,          \* parseHTML's argument
  pc,            \* position of the running call
  idx,           \* position of the walk in the token list
  styleStack,    \* parseHTML's local styleStack
  currentStyle,  \* parseHTML's local currentStyle
  segments,      \* parseHTML's local segments
  errors,        \* parseHTML's local errors
  validation,    \* parseHTML's local validation, what validateHTML returned
  isInListItem,  \* parseHTML's local flag
  listItemPrefixAdded, \* parseHTML's local flag
  listStack,     \* ListTagStrategy.listStack (static)
  listCounters,  \* ListTagStrategy.listCounters (static), by nesting depth
  result,        \* what parseHTML returned
  hist,          \* per processed token: style, stack depth, error and segment count after it
  engine,        \* TextLayoutEngine's fields
  layIn,         \* layoutSegments' arguments: segments and maxWidth
  cursor,        \* layoutSegments' currentX / currentY
  positioned,    \* layoutSegments' positioned fragments
  bounds,        \* what calculateBounds returned
  styleGroups,   \* the generator's style groups, in insertion order
  layers         \* the layers of the generated specification

vars == <<registry, pre, call, html, pc, idx, styleStack, currentStyle, segments,
          errors, validation, isInListItem, listItemPrefixAdded, listStack, listCounters,
          result, hist, engine, layIn, cursor, positioned, bounds, styleGroups, layers>>

regVars == <<registry, pre, call>>
parseVars == <<html, idx, styleStack, currentStyle, segments, errors, validation, isInListItem,
               listItemPrefixAdded, listStack, listCounters, result, hist>>
genVars == <<bounds, styleGroups, layers>>
layVars == <<engine, layIn, cursor, positioned, genVars>>

(***************************************************************************)
(* Small helpers                                                           *)
(***************************************************************************)
Range(s) == {s[k] : k \in 1..Len(s)}

Max(a, b) == IF a >= b THEN a ELSE b

SeqsUpTo(S, n) == UNION {[1..k -> S] : k \in 0..n}

\* A toLowerCase that leaves a name as it is written.
ToLowerCaseAsWritten(n) == n

\* String.prototype.toLowerCase on the tag and property names of the model.
ToLowerCase(n) ==
  CASE n = "B" -> "b"
    [] n = "COLOR" -> "color"
    [] n = "STRONG" -> "strong"
    [] n = "Zzz" -> "zzz"
    [] n \in {"LI", "Li"} -> "li"
    [] n = "BOOM" -> "boom"
    [] OTHER -> n

(***************************************************************************)
(* Styles                                                                  *)
(***************************************************************************)
\* HTMLParser.getDefaultStyle; fontSize and the list fields are unset.
getDefaultStyle ==
  [fontWeight |-> "normal", fontStyle |-> "normal", color |-> "#000000",
   textDecoration |-> "none", fontSize |-> 0,
   isListItem |-> FALSE, listNestingLevel |-> 0, listType |-> ""]

\* A size table rounded to whole and half pixels.
headingSizesRounded(t) ==
  CASE t = "h1" -> 3200 [] t = "h2" -> 2400 [] t = "h3" -> 1900
    [] t = "h4" -> 1600 [] t = "h5" -> 1350 [] t = "h6" -> 1050
    [] OTHER -> 0

\* HeadingTagStrategy.headingSizes, in 1/100 px.
headingSizes(t) ==
  CASE t = "h1" -> 3200 [] t = "h2" -> 2400 [] t = "h3" -> 1872
    [] t = "h4" -> 1600 [] t = "h5" -> 1328 [] t = "h6" -> 1072
    [] OTHER -> 0

(***************************************************************************)
(* Attributes and diagnostics                                              *)
(***************************************************************************)
\* A raw attribute string, reduced to what the handlers read from it: the
\* href value ("<none>" when there is no href) and the declarations of the
\* style attribute (<<>> when there is none or it is empty).
Attr(h, decls) == [href |-> h, style |-> decls]
Decl(p, v) == [prop |-> p, value |-> v]

NoAttrs == Attr("<none>", <<>>)
HrefEmpty == Attr("", <<>>)
HrefOk == Attr("https://example.com", <<>>)
StyleColor == Attr("<none>", <<Decl("color", "red")>>)
StyleInvalid == Attr("<none>", <<Decl("invalid-property", "value")>>)
StyleOblique ==
  Attr("<none>", <<Decl("font-style", "oblique"), Decl("text-decoration", "overline"),
                   Decl("font-weight", "500")>>)

\* An entry of an error list: the fixed text, and the name(s) it mentions.
Err(k, w) == [kind |-> k, what |-> w, tags |-> <<>>]
ErrTags(k, ts) == [kind |-> k, what |-> "", tags |-> ts]

Valid == [isValid |-> TRUE, errors |-> <<>>]
Invalid(es) == [isValid |-> FALSE, errors |-> es]

(***************************************************************************)
(* Tag strategies                                                          *)
(***************************************************************************)
\* getTagNames() of every handler instance of the model.  The Custom* ones
\* are user-supplied handlers: one sharing a name with BoldTagStrategy, one
\* declaring upper-case names, a line-break handler for a tag of its own and
\* two whose methods raise.
getTagNames(h) ==
  CASE h = "Bold" -> <<"b", "strong">>
    [] h = "Italic" -> <<"i", "em">>
    [] h = "Underline" -> <<"u">>
    [] h = "Span" -> <<"span">>
    [] h = "Heading" -> <<"h1", "h2", "h3", "h4", "h5", "h6">>
    [] h = "Paragraph" -> <<"p">>
    [] h = "Hyperlink" -> <<"a">>
    [] h = "LineBreak" -> <<"br">>
    [] h = "Code" -> <<"code", "pre", "kbd", "samp">>
    [] h = "SmallText" -> <<"small", "sub", "sup">>
    [] h = "Highlight" -> <<"mark">>
    [] h = "Strikethrough" -> <<"s", "strike", "del">>
    [] h = "List" -> <<"ul", "ol", "li">>
    [] h = "CustomStrong" -> <<"strong", "x">>
    [] h = "CustomUpper" -> <<"B", "Zzz">>
    [] h = "CustomBreak" -> <<"nl">>
    [] h = "CustomThrow" -> <<"boom">>
    [] h = "CustomVThrow" -> <<"vboom">>
    [] OTHER -> <<>>

\* isLineBreak(): BaseTagStrategy's default is false; LineBreakTagStrategy
\* and ListTagStrategy override it.
isLineBreak(h) == h \in {"LineBreak", "List", "CustomBreak"}

\* Which calls raise an exception.
applyStyleThrows(h) == h = "CustomThrow"
validateAttributesThrows(h) == h = "CustomVThrow"

\* The regular expressions of SpanTagStrategy.parseColor & co. search the
\* style string for "<key>:", so a property whose name ends in the key
\* matches as well.
DeclMatches(key, prop) ==
  \/ prop = key
  \/ key = "color" /\ prop = "background-color"

FirstDecl(key, decls) ==
  LET hits == {k \in 1..Len(decls) : DeclMatches(key, decls[k].prop)}
  IN IF hits = {} THEN 0 ELSE CHOOSE k \in hits : \A j \in hits : k <= j

parseColor(decls, style) ==
  LET k == FirstDecl("color", decls)
  IN IF k = 0 THEN style ELSE [style EXCEPT !.color = decls[k].value]

parseFontWeight(decls, style) ==
  LET k == FirstDecl("font-weight", decls)
  IN IF k = 0 THEN style
     ELSE [style EXCEPT !.fontWeight =
             IF decls[k].value \in {"bold", "600", "700", "800", "900"}
             THEN "bold" ELSE "normal"]

\* A font-style that is copied from the declaration as written.
parseFontStyleVerbatim(decls, style) ==
  LET k == FirstDecl("font-style", decls)
  IN IF k = 0 THEN style ELSE [style EXCEPT !.fontStyle = decls[k].value]

parseFontStyle(decls, style) ==
  LET k == FirstDecl("font-style", decls)
  IN IF k = 0 THEN style
     ELSE [style EXCEPT !.fontStyle =
             IF decls[k].value \in {"italic", "oblique"} THEN "italic" ELSE "normal"]

parseTextDecoration(decls, style) ==
  LET k == FirstDecl("text-decoration", decls)
  IN IF k = 0 THEN style
     ELSE [style EXCEPT !.textDecoration =
             IF decls[k].value \in {"underline", "underline dotted"}
             THEN "underline" ELSE "none"]

SpanApplyStyle(style, attrs) ==
  IF attrs.style = <<>> THEN style
  ELSE parseTextDecoration(attrs.style,
         parseFontStyle(attrs.style,
           parseFontWeight(attrs.style,
             parseColor(attrs.style, style))))

\* applyStyle of every handler but ListTagStrategy, whose applyStyle also
\* writes the static list state (ListApplyStyle below).
applyStyle(h, style, attrs, tagName) ==
  CASE h = "Bold" -> [style EXCEPT !.fontWeight = "bold"]
    [] h = "Italic" -> [style EXCEPT !.fontStyle = "italic"]
    [] h = "Underline" -> [style EXCEPT !.textDecoration = "underline"]
    [] h = "Span" -> SpanApplyStyle(style, attrs)
    [] h = "Heading" ->
         [style EXCEPT !.fontWeight = "bold",
                       !.fontSize = IF tagName # ""
                                    THEN (IF headingSizes(ToLowerCase(tagName)) # 0
                                          THEN headingSizes(ToLowerCase(tagName)) ELSE 1600)
                                    ELSE (IF style.fontSize # 0 THEN style.fontSize ELSE 1600)]
    [] h = "Hyperlink" -> [style EXCEPT !.color = "#0066cc", !.textDecoration = "underline"]
    [] h = "Code" -> [style EXCEPT !.color = "#d63384"]
    [] h = "SmallText" -> [style EXCEPT !.color = "#6c757d"]
    [] h = "Highlight" -> [style EXCEPT !.color = "#212529"]
    [] h = "Strikethrough" -> [style EXCEPT !.textDecoration = "line-through", !.color = "#6c757d"]
    [] h = "CustomStrong" -> [style EXCEPT !.fontWeight = "bold", !.color = "#FF0000"]
    [] OTHER -> style

\* ListTagStrategy.applyStyle: the returned style and the static state.
ListApplyStyle(style, tagName, stack, counters) ==
  LET t == ToLowerCase(tagName)
      depth == Len(stack)
      parent == IF depth = 0 THEN "" ELSE stack[depth]
  IN CASE t = "ul" -> [style |-> style, stack |-> Append(stack, "ul"), counters |-> counters]
       [] t = "ol" -> [style |-> style, stack |-> Append(stack, "ol"),
                       counters |-> [k \in DOMAIN counters \cup {depth + 1} |->
                                       IF k = depth + 1 THEN 0 ELSE counters[k]]]
       [] t = "li" ->
            [style |-> [style EXCEPT !.isListItem = TRUE, !.listNestingLevel = depth,
                                     !.listType = parent],
             stack |-> stack,
             counters |-> IF parent = "ol"
                          THEN [k \in DOMAIN counters \cup {depth} |->
                                  IF k = depth
                                  THEN (IF depth \in DOMAIN counters THEN counters[depth] ELSE 0) + 1
                                  ELSE counters[k]]
                          ELSE counters]
       [] OTHER -> [style |-> style, stack |-> stack, counters |-> counters]

\* A getListItemPrefix that reads the counter of the outermost list.
getListItemPrefixOutermost(stack, counters) ==
  LET depth == Len(stack)
      parent == IF depth = 0 THEN "" ELSE stack[depth]
  IN CASE parent = "ol" ->
            [kind |-> "number",
             n |-> IF 1 \in DOMAIN counters /\ counters[1] # 0 THEN counters[1] ELSE 1]
       [] parent = "ul" -> [kind |-> "bullet", n |-> 0]
       [] OTHER -> [kind |-> "empty", n |-> 0]

\* ListTagStrategy.getListItemPrefix('li'): "k. ", the bullet, or "".
getListItemPrefix(stack, counters) ==
  LET depth == Len(stack)
      parent == IF depth = 0 THEN "" ELSE stack[depth]
  IN CASE parent = "ol" ->
            [kind |-> "number",
             n |-> IF depth \in DOMAIN counters /\ counters[depth] # 0 THEN counters[depth] ELSE 1]
       [] parent = "ul" -> [kind |-> "bullet", n |-> 0]
       [] OTHER -> [kind |-> "empty", n |-> 0]

\* ListTagStrategy.handleClosingTag.
handleClosingTag(tag, stack, counters) ==
  LET depth == Len(stack)
  IN [stack |-> IF depth = 0 THEN stack ELSE SubSeq(stack, 1, depth - 1),
      counters |-> IF tag = "ol"
                   THEN [k \in DOMAIN counters \ {depth} |-> counters[k]]
                   ELSE counters]

\* SpanTagStrategy.validateAttributes: one pass over the declarations.
RECURSIVE SpanDeclErrors(_)
SpanDeclErrors(decls) ==
  IF decls = <<>> THEN <<>>
  ELSE LET d == Head(decls)
           e1 == IF d.prop \in {"color", "font-weight", "font-style", "text-decoration"}
                 THEN <<>> ELSE <<Err("Unsupported CSS property", d.prop)>>
           e2 == IF d.prop = "font-weight"
                    /\ d.value \notin {"normal", "bold", "100", "200", "300", "400",
                                       "500", "600", "700", "800", "900"}
                 THEN <<Err("Invalid font-weight value", d.value)>> ELSE <<>>
       IN e1 \o e2 \o SpanDeclErrors(Tail(decls))

\* validateAttributes of every handler; BaseTagStrategy's default accepts.
validateAttributes(h, attrs) ==
  CASE h = "Span" ->
         LET es == SpanDeclErrors(attrs.style)
         IN IF es = <<>> THEN Valid ELSE Invalid(es)
    [] h = "Hyperlink" ->
         IF attrs.href \in {"<none>", ""} THEN Invalid(<<Err("Missing href attribute", "href")>>)
         ELSE IF attrs.href = "not a url" THEN Invalid(<<Err("Invalid URL", attrs.href)>>)
         ELSE Valid
    [] h = "List" ->
         IF attrs.href # "<none>"
         THEN Invalid(<<Err("Invalid or unsupported attributes for list tag", "")>>)
         ELSE Valid
    [] OTHER -> Valid


(***************************************************************************)
(* TagStrategyRegistry                                                     *)
(***************************************************************************)
\* new TagStrategyRegistry(): no bindings.
EmptyRegistry == [n \in {} |-> ""]

LowerNames(h) == {ToLowerCase(n) : n \in Range(getTagNames(h))}

\* A registerStrategy that stores the declared names as they are written.
RegisterStrategyVerbatim(reg, h) ==
  [n \in DOMAIN reg \cup Range(getTagNames(h)) |->
     IF n \in Range(getTagNames(h)) THEN h ELSE reg[n]]

\* registerStrategy: binds every declared name, lower-cased, to the handler.
RegisterStrategy(reg, h) ==
  [n \in DOMAIN reg \cup LowerNames(h) |-> IF n \in LowerNames(h) THEN h ELSE reg[n]]

\* getStrategy: the handler bound to the name, or "" for undefined.
getStrategy(reg, t) ==
  IF ToLowerCase(t) \in DOMAIN reg THEN reg[ToLowerCase(t)] ELSE ""

\* isSupported.
isSupported(reg, t) == ToLowerCase(t) \in DOMAIN reg

\* A removeStrategy that deletes only the name it was given.
RemoveGivenNameOnly(reg, t) ==
  [n \in DOMAIN reg \ {ToLowerCase(t)} |-> reg[n]]

\* removeStrategy: the registry it leaves.  It deletes every name that the
\* handler found under t declares.
RemoveStrategy(reg, t) ==
  IF getStrategy(reg, t) = "" THEN reg
  ELSE [n \in DOMAIN reg \ LowerNames(getStrategy(reg, t)) |-> reg[n]]

\* removeStrategy: its return value, true when a delete() succeeded.
RemoveStrategyResult(reg, t) ==
  /\ getStrategy(reg, t) # ""
  /\ LowerNames(getStrategy(reg, t)) \cap DOMAIN reg # {}

\* The handlers and the names used as arguments of the registry calls.
RegistryHandlers == {"Bold", "Underline", "CustomStrong", "CustomUpper"}
RegistryNames == {"b", "strong", "STRONG", "x", "u", "B", "zzz"}

NoCall == [op |-> "none", arg |-> "", strategy |-> "", ret |-> FALSE]

\* The parser and the layout engine at rest.
NoResult ==
  [returned |-> FALSE, threw |-> FALSE, fallback |-> FALSE, segments |-> <<>>, errors |-> <<>>]

IdleParse ==
  /\ html = [isString |-> TRUE, tokens |-> <<>>]
  /\ idx = 0
  /\ styleStack = <<>>
  /\ currentStyle = getDefaultStyle
  /\ segments = <<>>
  /\ errors = <<>>
  /\ validation = Valid
  /\ isInListItem = FALSE
  /\ listItemPrefixAdded = FALSE
  /\ listStack = <<>>
  /\ listCounters = [k \in {} |-> 0]
  /\ result = NoResult
  /\ hist = <<>>

NoBounds == [width |-> 0, height |-> 0]

IdleGenerator ==
  /\ bounds = NoBounds
  /\ styleGroups = <<>>
  /\ layers = <<>>

IdleLayout ==
  /\ engine = [fontSize |-> 0, fontFamily |-> "", startX |-> 0, startY |-> 0, lineHeight |-> 0]
  /\ layIn = [segments |-> <<>>, maxWidth |-> 0]
  /\ cursor = [x |-> 0, y |-> 0]
  /\ positioned = <<>>
  /\ IdleGenerator

InitRegistry ==
  /\ registry = EmptyRegistry
  /\ pre = EmptyRegistry
  /\ call = NoCall
  /\ pc = "registry"
  /\ IdleParse
  /\ IdleLayout

registerStrategy(h) ==
  /\ pc = "registry"
  /\ pre' = registry
  /\ registry' = RegisterStrategy(registry, h)
  /\ call' = [op |-> "registerStrategy", arg |-> h, strategy |-> h, ret |-> FALSE]
  /\ UNCHANGED <<pc, parseVars, layVars>>

removeStrategy(t) ==
  /\ pc = "registry"
  /\ pre' = registry
  /\ registry' = RemoveStrategy(registry, t)
  /\ call' = [op |-> "removeStrategy", arg |-> t, strategy |-> getStrategy(registry, t),
              ret |-> RemoveStrategyResult(registry, t)]
  /\ UNCHANGED <<pc, parseVars, layVars>>

clearStrategies ==
  /\ pc = "registry"
  /\ pre' = registry
  /\ registry' = EmptyRegistry
  /\ call' = [op |-> "clearStrategies", arg |-> "", strategy |-> "", ret |-> FALSE]
  /\ UNCHANGED <<pc, parseVars, layVars>>

NextRegistry ==
  \/ \E h \in RegistryHandlers : registerStrategy(h)
  \/ \E t \in RegistryNames : removeStrategy(t)
  \/ clearStrategies

SpecRegistry == InitRegistry /\ [][NextRegistry]_vars

(***************************************************************************)
(* Registry properties                                                     *)
(***************************************************************************)
\* C4: when removeStrategy is called with a name bound to a handler that
\* declares two or more names, it returns true and afterwards none of that
\* handler's names is supported.
RemovalCascade ==
  (/\ call.op = "removeStrategy"
   /\ call.strategy # ""
   /\ Len(getTagNames(call.strategy)) >= 2)
  => /\ call.ret = TRUE
     /\ \A n \in Range(getTagNames(call.strategy)) : ~isSupported(registry, n)

\* C4 witness: a two-name handler was bound to both of its names and has
\* been removed by one of them.
RemovalCascadeSeen ==
  /\ call.op = "removeStrategy"
  /\ call.strategy = "Bold"
  /\ call.ret = TRUE
  /\ \A n \in LowerNames("Bold") : n \in DOMAIN pre /\ pre[n] = "Bold"
  /\ \A n \in LowerNames("Bold") : n \notin DOMAIN registry

\* C5 (as claimed): removeStrategy leaves every name alone that was bound
\* to a handler instance other than the one found under its argument.
RemoveKeepsOtherHandlers ==
  call.op = "removeStrategy" =>
    \A n \in DOMAIN pre :
      pre[n] # call.strategy => (n \in DOMAIN registry /\ registry[n] = pre[n])

\* C19: after registerStrategy(h), getStrategy returns h for every name h
\* declares, whatever was bound to it before, and the names h does not
\* declare (compared in lower case) are bound exactly as they were.
RegisterBindsDeclaredNames ==
  call.op = "registerStrategy" =>
    /\ \A n \in Range(getTagNames(call.strategy)) :
         getStrategy(registry, n) = call.strategy
    /\ \A n \in RegistryNames \cup DOMAIN pre \cup DOMAIN registry :
         ToLowerCase(n) \notin LowerNames(call.strategy)
           => getStrategy(registry, n) = getStrategy(pre, n)
    /\ DOMAIN registry = DOMAIN pre \cup LowerNames(call.strategy)

\* C19 witness: a handler declaring "B" has replaced the handler bound to
\* "b", while "strong" stays with the replaced handler.
RegisterReplacedHandler ==
  /\ call.op = "registerStrategy"
  /\ call.strategy = "CustomUpper"
  /\ "b" \in DOMAIN pre /\ pre["b"] = "Bold"
  /\ getStrategy(registry, "b") = "CustomUpper"
  /\ getStrategy(registry, "strong") = "Bold"


(***************************************************************************)
(* HTMLParser: input, tokens, validateHTML                                 *)
(***************************************************************************)
\* The longest input of the parser runs, in tokens.
MaxTokens == 5

\* What html.split(tagPattern) yields, one record per text run or tag.  A
\* tag is its slash indicator, its name and its attribute string; closing
\* tags are written without attributes.
Text(t) == [kind |-> "text", name |-> "", attrs |-> NoAttrs, text |-> t]
Open(n, a) == [kind |-> "open", name |-> n, attrs |-> a, text |-> <<>>]
Close(n) == [kind |-> "close", name |-> n, attrs |-> NoAttrs, text |-> <<>>]

\* A string argument made of the given tokens, and an argument that is not
\* a string (null, a number, an object).
Str(toks) == [isString |-> TRUE, tokens |-> toks]
NotAString == [isString |-> FALSE, tokens |-> <<>>]

\* String.prototype.trim / trimStart, and the emptiness test on the result.
Whitespace == {" ", "\n"}

RECURSIVE trimStart(_)
trimStart(t) ==
  IF t # <<>> /\ Head(t) \in Whitespace THEN trimStart(Tail(t)) ELSE t

IsBlank(t) == trimStart(t) = <<>>

\* The line-break marker "\n".
Marker == <<"\n">>

\* An isSelfClosingTag that knows no self-closing tag.
isSelfClosingTagNever(n) == FALSE

\* HTMLParser.isSelfClosingTag.
isSelfClosingTag(n) == ToLowerCase(n) \in {"br", "hr", "img", "input", "meta", "link"}

\* The loop of validateHTML over the tags of the input: the names left open
\* and the errors collected.
\* A validation loop that skips a closing tag that closes nothing instead
\* of reporting it.
RECURSIVE ValidateTagsSkippingMismatch(_, _, _, _)
ValidateTagsSkippingMismatch(toks, reg, openTags, errs) ==
  IF toks = <<>> THEN [openTags |-> openTags, errors |-> errs]
  ELSE LET tok == Head(toks)
           tagName == ToLowerCase(tok.name)
       IN CASE tok.kind = "close" ->
                 IF openTags = <<>> \/ openTags[Len(openTags)] # tagName
                 THEN ValidateTagsSkippingMismatch(Tail(toks), reg, openTags, errs)
                 ELSE ValidateTagsSkippingMismatch(Tail(toks), reg,
                                                   SubSeq(openTags, 1, Len(openTags) - 1), errs)
            [] tok.kind = "open" ->
                 ValidateTagsSkippingMismatch(Tail(toks), reg,
                              IF isSelfClosingTag(tagName) THEN openTags
                              ELSE Append(openTags, tagName),
                              IF isSupported(reg, tagName) THEN errs
                              ELSE Append(errs, Err("Unsupported tag", tagName)))
            [] OTHER -> ValidateTagsSkippingMismatch(Tail(toks), reg, openTags, errs)

RECURSIVE ValidateTags(_, _, _, _)
ValidateTags(toks, reg, openTags, errs) ==
  IF toks = <<>> THEN [openTags |-> openTags, errors |-> errs]
  ELSE LET tok == Head(toks)
           tagName == ToLowerCase(tok.name)
       IN CASE tok.kind = "close" ->
                 IF openTags = <<>> \/ openTags[Len(openTags)] # tagName
                 THEN ValidateTags(Tail(toks), reg, openTags,
                                   Append(errs, Err("Mismatched closing tag", tagName)))
                 ELSE ValidateTags(Tail(toks), reg,
                                   SubSeq(openTags, 1, Len(openTags) - 1), errs)
            [] tok.kind = "open" ->
                 ValidateTags(Tail(toks), reg,
                              IF isSelfClosingTag(tagName) THEN openTags
                              ELSE Append(openTags, tagName),
                              IF isSupported(reg, tagName) THEN errs
                              ELSE Append(errs, Err("Unsupported tag", tagName)))
            [] OTHER -> ValidateTags(Tail(toks), reg, openTags, errs)

\* An unclosed-tags report that names only the innermost open tag.
UnclosedErrorInnermost(openTags) ==
  <<ErrTags("Unclosed tags", <<openTags[Len(openTags)]>>)>>

\* The error that closes validateHTML's list: every name still open.
UnclosedError(openTags) == <<ErrTags("Unclosed tags", openTags)>>

\* HTMLParser.validateHTML.
validateHTML(h, reg) ==
  IF ~h.isString \/ h.tokens = <<>>
  THEN Invalid(<<Err("Input must be a non-empty string", "")>>)
  ELSE LET v == ValidateTags(h.tokens, reg, <<>>, <<>>)
           es == v.errors \o (IF v.openTags # <<>> THEN UnclosedError(v.openTags) ELSE <<>>)
       IN [isValid |-> es = <<>>, errors |-> es]

(***************************************************************************)
(* HTMLParser.parseHTML: the pieces of the token walk                      *)
(***************************************************************************)
Seg(t, st) == [text |-> t, style |-> st, hasSpaceAfter |-> FALSE, spacingContext |-> ""]

\* HTMLParser.needsLineBreak.
needsLineBreak(segs) ==
  /\ segs # <<>>
  /\ segs[Len(segs)].text # Marker
  /\ ~IsBlank(segs[Len(segs)].text)

\* hasMoreContent after the closing tag at position k: the rest of the
\* parts, joined, is not blank.  The slash and the name of any later tag are
\* parts too, so a later tag counts as content.
hasMoreContent(toks, k) ==
  \E j \in (k + 1)..Len(toks) :
    toks[j].kind # "text" \/ ~IsBlank(toks[j].text)

isBlockElement(n) == n \in {"p", "h1", "h2", "h3", "h4", "h5", "h6", "ul", "ol"}

\* A pop without the guard.
PopStyleStackUnguarded(stack) == SubSeq(stack, 1, Len(stack) - 1)

\* The closing-tag pop: never the last frame.
PopStyleStack(stack) ==
  IF Len(stack) > 1 THEN SubSeq(stack, 1, Len(stack) - 1) ELSE stack

\* Whether the opening tag of handler h pushes a style frame: every handler
\* that is no line break, and the line-break handlers of li, ul, ol, p, h1-h6.
PushesFrame(h, tagName) ==
  \/ ~isLineBreak(h)
  \/ tagName \in {"li", "ul", "ol", "p", "h1", "h2", "h3", "h4", "h5", "h6"}

\* Whether the line-break branch emits a marker: always for a plain line
\* break, otherwise only after a non-blank, non-marker segment.
EmitsMarker(h, tagName, segs) ==
  /\ isLineBreak(h)
  /\ (PushesFrame(h, tagName) => needsLineBreak(segs))

\* A failed attribute validation that drops the tag.
ProceedOnlyIfValid(v) == v.isValid

\* After validateAttributes the tag is processed whatever the outcome.
ProceedAfterValidation(v) == TRUE

\* The text of a list item prefix.
DigitChar(n) ==
  CASE n = 1 -> "1" [] n = 2 -> "2" [] n = 3 -> "3" [] n = 4 -> "4" [] n = 5 -> "5"
    [] n = 6 -> "6" [] n = 7 -> "7" [] n = 8 -> "8" [] n = 9 -> "9" [] OTHER -> "0"

\* The characters of the prefix strings.  The literal returned for an
\* unordered parent is four characters long: U+00E2, U+20AC, U+00A2 and a
\* space, written here by their names.
PrefixText(p) ==
  CASE p.kind = "number" -> <<DigitChar(p.n), ".", " ">>
    [] p.kind = "bullet" -> <<"a-circumflex", "euro-sign", "cent-sign", " ">>
    [] OTHER -> <<>>

\* A text token that is emitted with its surrounding whitespace cut off.
TextSegmentsTrimmed(part, cur, inLi, pfxAdded, lstack, lcount) ==
  <<Seg(trimStart(part), cur)>>

\* The segments a non-blank text part adds: the list item prefix with the
\* reset style when one is due, then the text with the current style.
TextSegments(part, cur, inLi, pfxAdded, lstack, lcount) ==
  IF inLi /\ ~pfxAdded
  THEN <<[text |-> PrefixText(getListItemPrefix(lstack, lcount)),
          style |-> [cur EXCEPT !.textDecoration = "none", !.fontWeight = "normal",
                                !.fontStyle = "normal", !.color = "#000000"],
          hasSpaceAfter |-> TRUE, spacingContext |-> "list-prefix"],
         Seg(trimStart(part), cur)>>
  ELSE <<Seg(part, cur)>>

\* SpacingAnalyzer.analyzeAndAssignSpacing: sets spacing flags and leaves
\* text, style and order alone.
analyzeAndAssignSpacing(segs) ==
  [k \in 1..Len(segs) |->
     [segs[k] EXCEPT !.hasSpaceAfter = (segs[k].spacingContext = "list-prefix") \/ @]]

\* A fallback that keeps the errors collected so far.
FallbackKeepingErrors(h, errs, message) ==
  [returned |-> TRUE, threw |-> FALSE, fallback |-> TRUE,
   segments |-> <<Seg(h, getDefaultStyle)>>,
   errors |-> Append(errs, Err("Parse error", message))]

\* The catch block: the whole input as one default-styled segment and one
\* diagnostic.
FallbackResult(h, errs, message) ==
  [returned |-> TRUE, threw |-> FALSE, fallback |-> TRUE,
   segments |-> <<Seg(h, getDefaultStyle)>>,
   errors |-> <<Err("Parse error", message)>>]


(***************************************************************************)
(* HTMLParser.parseHTML: registries, inputs and the walk                   *)
(***************************************************************************)
RECURSIVE RegisterAll(_, _)
RegisterAll(reg, hs) ==
  IF hs = <<>> THEN reg ELSE RegisterAll(RegisterStrategy(reg, Head(hs)), Tail(hs))

\* createDefaultTagStrategyRegistry: the built-in handlers.
createDefaultTagStrategyRegistry ==
  RegisterAll(EmptyRegistry,
              <<"Bold", "Italic", "Underline", "Span", "Heading", "Paragraph", "Hyperlink",
                "LineBreak", "Code", "SmallText", "Highlight", "Strikethrough">>)

\* new HTMLParser(customStrategies): the default registry, then the list
\* handler and the three user-supplied handlers.
CustomRegistry ==
  RegisterAll(createDefaultTagStrategyRegistry,
              <<"List", "CustomBreak", "CustomThrow", "CustomVThrow">>)

\* The same parser after removeTagStrategy('b').
RegistryWithoutBold == RemoveStrategy(CustomRegistry, "b")

T_hi == <<"h", "i">>
T_x == <<" ", "x">>
T_blank == <<" ">>

\* The runs of the parser: a registry and the tokens its inputs are made of.
Scenarios ==
  { [reg |-> createDefaultTagStrategyRegistry,
     alphabet |-> {Open("b", NoAttrs), Close("b"), Open("br", NoAttrs), Close("br"), Text(T_hi)}],
    [reg |-> CustomRegistry,
     alphabet |-> {Open("i", NoAttrs), Open("nl", NoAttrs), Close("nl"), Text(T_hi)}],
    [reg |-> CustomRegistry,
     alphabet |-> {Open("b", NoAttrs), Close("b"), Open("Zzz", NoAttrs), Close("zzz"), Text(T_x)}],
    [reg |-> RegistryWithoutBold,
     alphabet |-> {Open("b", NoAttrs), Open("img", NoAttrs), Text(T_hi), Text(T_blank)}],
    [reg |-> CustomRegistry,
     alphabet |-> {Open("b", NoAttrs), Open("i", NoAttrs), Open("h1", NoAttrs), Close("i"),
                   Text(T_hi)}],
    [reg |-> CustomRegistry,
     alphabet |-> {Open("boom", NoAttrs), Open("vboom", NoAttrs), Open("span", StyleColor),
                   Text(T_hi)}],
    [reg |-> CustomRegistry,
     alphabet |-> {Open("a", HrefEmpty), Close("a"), Open("span", StyleInvalid), Close("span"),
                   Text(T_hi)}],
    [reg |-> CustomRegistry,
     alphabet |-> {Open("ul", HrefOk), Open("li", NoAttrs), Close("li"), Close("ul"),
                   Text(T_x)}],
    [reg |-> createDefaultTagStrategyRegistry,
     alphabet |-> {Open("span", StyleOblique), Open("s", NoAttrs), Close("span"),
                   Text(T_hi)}] }

\* Token lists a string can split into: the text between two tags is one
\* part, so no two text runs are adjacent.
Splittable(toks) ==
  \A k \in 1..(Len(toks) - 1) : ~(toks[k].kind = "text" /\ toks[k + 1].kind = "text")

Inputs(sc) ==
  {Str(t) : t \in {u \in SeqsUpTo(sc.alphabet, MaxTokens) : Splittable(u)}} \cup {NotAString}

InitParse ==
  /\ \E sc \in Scenarios :
       /\ registry = sc.reg
       /\ html \in Inputs(sc)
  /\ pre = EmptyRegistry
  /\ call = NoCall
  /\ pc = "ready"
  /\ idx = 0
  /\ styleStack = <<>>
  /\ currentStyle = getDefaultStyle
  /\ segments = <<>>
  /\ errors = <<>>
  /\ validation = Valid
  /\ isInListItem = FALSE
  /\ listItemPrefixAdded = FALSE
  /\ listStack = <<>>
  /\ listCounters = [k \in {} |-> 0]
  /\ result = NoResult
  /\ hist = <<>>
  /\ IdleLayout

\* The errors parseHTML starts with: those of validateHTML when it fails.
MergeValidation(v) ==
  IF ~v.isValid THEN v.errors ELSE <<>>

\* A validateHTML that reads the string before testing its type.
validateHTMLThrowsOnNonString(h) == ~h.isString

\* Whether validateHTML, which parseHTML calls outside its try block,
\* raises: it tests the type first and calls no handler, so it never does.
validateHTMLThrows(h) == FALSE

\* parseHTML up to the loop: validateHTML, resetListState, split, the
\* initial stack.  split raises when html is no string.
\* A list state that is left as the last call left it.
LeftoverListState == [stack |-> listStack, counters |-> listCounters]

\* ListTagStrategy.resetListState(), called first in parseHTML's try block:
\* the static list state after it.
ClearedListState == [stack |-> <<>>, counters |-> [k \in {} |-> 0]]

parseHTML ==
  /\ pc = "ready"
  /\ IF validateHTMLThrows(html)
     THEN /\ result' = [NoResult EXCEPT !.threw = TRUE]
          /\ pc' = "done"
          /\ UNCHANGED <<idx, styleStack, currentStyle, segments, errors, validation,
                         isInListItem, listItemPrefixAdded, listStack, listCounters, hist>>
     ELSE /\ validation' = validateHTML(html, registry)
          /\ errors' = MergeValidation(validation')
          /\ listStack' = ClearedListState.stack
          /\ listCounters' = ClearedListState.counters
          /\ IF ~html.isString
             THEN /\ result' = FallbackResult(html, errors', "html.split is not a function")
                  /\ pc' = "done"
                  /\ UNCHANGED <<idx, styleStack, currentStyle, segments, isInListItem,
                                 listItemPrefixAdded, hist>>
             ELSE /\ pc' = "walk"
                  /\ idx' = 1
                  /\ currentStyle' = getDefaultStyle
                  /\ styleStack' = <<getDefaultStyle>>
                  /\ segments' = <<>>
                  /\ isInListItem' = FALSE
                  /\ listItemPrefixAdded' = FALSE
                  /\ hist' = <<>>
                  /\ UNCHANGED result
  /\ UNCHANGED <<html, regVars, layVars>>

\* What the walk has done by the end of an iteration.
Snapshot(style, stack, errs, segs) ==
  [style |-> style, depth |-> Len(stack), nerr |-> Len(errs), nseg |-> Len(segs)]

Walking == pc = "walk" /\ idx <= Len(html.tokens)

\* One iteration on a text part.
WalkText ==
  /\ Walking
  /\ html.tokens[idx].kind = "text"
  /\ LET part == html.tokens[idx].text
     IN IF ~IsBlank(part)
        THEN /\ segments' = segments \o TextSegments(part, currentStyle, isInListItem,
                                                     listItemPrefixAdded, listStack, listCounters)
             /\ listItemPrefixAdded' = (listItemPrefixAdded \/ isInListItem)
        ELSE UNCHANGED <<segments, listItemPrefixAdded>>
  /\ idx' = idx + 1
  /\ hist' = Append(hist, Snapshot(currentStyle, styleStack, errors, segments'))
  /\ UNCHANGED <<html, pc, styleStack, currentStyle, errors, validation, isInListItem,
                 listStack, listCounters, result, regVars, layVars>>

\* One iteration on a closing tag.
WalkClose ==
  /\ Walking
  /\ html.tokens[idx].kind = "close"
  /\ LET closingTagName == ToLowerCase(html.tokens[idx].name)
         cleaned == IF closingTagName \in {"ul", "ol"}
                    THEN handleClosingTag(closingTagName, listStack, listCounters)
                    ELSE [stack |-> listStack, counters |-> listCounters]
     IN /\ listStack' = cleaned.stack
        /\ listCounters' = cleaned.counters
        /\ isInListItem' = IF closingTagName = "li" THEN FALSE ELSE isInListItem
        /\ listItemPrefixAdded' = IF closingTagName = "li" THEN FALSE ELSE listItemPrefixAdded
        /\ segments' = IF isBlockElement(closingTagName) /\ hasMoreContent(html.tokens, idx)
                       THEN Append(segments, Seg(Marker, currentStyle))
                       ELSE segments
        /\ styleStack' = PopStyleStack(styleStack)
        /\ currentStyle' = IF Len(styleStack') < Len(styleStack) /\ styleStack' # <<>>
                           THEN styleStack'[Len(styleStack')]
                           ELSE currentStyle
  /\ idx' = idx + 1
  /\ hist' = Append(hist, Snapshot(currentStyle', styleStack', errors, segments'))
  /\ UNCHANGED <<html, pc, errors, validation, result, regVars, layVars>>

\* applyStyle as the walk calls it: ListTagStrategy's also moves the static
\* list state.
CallApplyStyle(h, style, attrs, tagName, lstack, lcount) ==
  IF h = "List" THEN ListApplyStyle(style, tagName, lstack, lcount)
  ELSE [style |-> applyStyle(h, style, attrs, tagName), stack |-> lstack, counters |-> lcount]

\* One iteration on an opening tag.
WalkOpen ==
  /\ Walking
  /\ html.tokens[idx].kind = "open"
  /\ LET tagName == ToLowerCase(html.tokens[idx].name)
         attributes == html.tokens[idx].attrs
         strategy == getStrategy(registry, tagName)
         attrCheck == validateAttributes(strategy, attributes)
         errs == errors \o (IF attrCheck.isValid THEN <<>> ELSE attrCheck.errors)
         segs == IF EmitsMarker(strategy, tagName, segments)
                 THEN Append(segments, Seg(Marker, currentStyle))
                 ELSE segments
         styled == CallApplyStyle(strategy, currentStyle, attributes, tagName,
                                  listStack, listCounters)
     IN IF strategy = ""
        THEN /\ errors' = Append(errors, Err("Unsupported tag", tagName))
             /\ idx' = idx + 1
             /\ hist' = Append(hist, Snapshot(currentStyle, styleStack, errors', segments))
             /\ UNCHANGED <<pc, styleStack, currentStyle, segments, isInListItem,
                            listItemPrefixAdded, listStack, listCounters, result>>
        ELSE IF \/ validateAttributesThrows(strategy)
                \/ PushesFrame(strategy, tagName) /\ applyStyleThrows(strategy)
        THEN /\ result' = FallbackResult(html, errors, "handler failed")
             /\ pc' = "done"
             /\ UNCHANGED <<idx, styleStack, currentStyle, segments, errors, isInListItem,
                            listItemPrefixAdded, listStack, listCounters, hist>>
        ELSE IF ~ProceedAfterValidation(attrCheck)
        THEN /\ errors' = errs
             /\ idx' = idx + 1
             /\ hist' = Append(hist, Snapshot(currentStyle, styleStack, errors', segments))
             /\ UNCHANGED <<pc, styleStack, currentStyle, segments, isInListItem,
                            listItemPrefixAdded, listStack, listCounters, result>>
        ELSE /\ errors' = errs
             /\ segments' = segs
             /\ IF isLineBreak(strategy) /\ tagName = "li"
                THEN isInListItem' = TRUE /\ listItemPrefixAdded' = FALSE
                ELSE UNCHANGED <<isInListItem, listItemPrefixAdded>>
             /\ IF PushesFrame(strategy, tagName)
                THEN /\ styleStack' = Append(styleStack, styled.style)
                     /\ currentStyle' = styled.style
                     /\ listStack' = styled.stack
                     /\ listCounters' = styled.counters
                ELSE UNCHANGED <<styleStack, currentStyle, listStack, listCounters>>
             /\ idx' = idx + 1
             /\ hist' = Append(hist, Snapshot(currentStyle', styleStack', errors', segments'))
             /\ UNCHANGED <<pc, result>>
  /\ UNCHANGED <<html, validation, regVars, layVars>>

\* After the loop: the spacing pass and the return.
ParseReturn ==
  /\ pc = "walk"
  /\ idx > Len(html.tokens)
  /\ result' = [returned |-> TRUE, threw |-> FALSE, fallback |-> FALSE,
                segments |-> analyzeAndAssignSpacing(segments), errors |-> errors]
  /\ pc' = "done"
  /\ UNCHANGED <<html, idx, styleStack, currentStyle, segments, errors, validation,
                 isInListItem, listItemPrefixAdded, listStack, listCounters, hist,
                 regVars, layVars>>

NextParse == parseHTML \/ WalkText \/ WalkClose \/ WalkOpen \/ ParseReturn

SpecParse == InitParse /\ [][NextParse]_vars


(***************************************************************************)
(* parseHTML on nested lists                                               *)
(***************************************************************************)
\* The most items of an innermost list of the list runs.
MaxItems == 2

ListKinds == {"ul", "ol"}

\* '<li> x</li>'.
LeafItem == <<Open("li", NoAttrs), Text(T_x), Close("li")>>

RECURSIVE Repeat(_, _)
Repeat(s, n) == IF n = 0 THEN <<>> ELSE s \o Repeat(s, n - 1)

\* A list of one or more leaf items.
FlatLists ==
  {<<Open(t, NoAttrs)>> \o Repeat(LeafItem, n) \o <<Close(t)>> : t \in ListKinds, n \in 1..MaxItems}

\* A leaf item, or an item holding a list with or without text of its own
\* before and after it.
NestItems ==
  {LeafItem} \cup
  {<<Open("li", NoAttrs)>> \o before \o l \o after \o <<Close("li")>> :
     l \in FlatLists, before \in {<<>>, <<Text(T_x)>>}, after \in {<<>>, <<Text(T_x)>>}}

\* A list of one or two such items.
ListInputs ==
  {<<Open(t, NoAttrs)>> \o a \o b \o <<Close(t)>> :
     t \in ListKinds, a \in NestItems, b \in NestItems \cup {<<>>}}

\* A parser with the list handler registered, about to parse a list.
InitLists ==
  /\ registry = CustomRegistry
  /\ html \in {Str(t) : t \in ListInputs}
  /\ pre = EmptyRegistry
  /\ call = NoCall
  /\ pc = "ready"
  /\ idx = 0
  /\ styleStack = <<>>
  /\ currentStyle = getDefaultStyle
  /\ segments = <<>>
  /\ errors = <<>>
  /\ validation = Valid
  /\ isInListItem = FALSE
  /\ listItemPrefixAdded = FALSE
  /\ listStack = <<>>
  /\ listCounters = [k \in {} |-> 0]
  /\ result = NoResult
  /\ hist = <<>>
  /\ IdleLayout

SpecLists == InitLists /\ [][NextParse]_vars

(***************************************************************************)
(* Parser properties                                                       *)
(***************************************************************************)
\* The nesting of the first k tokens: whether every closing tag so far
\* closed the most recently opened unclosed tag, and the positions of the
\* tags still open.
RECURSIVE ScanNest(_, _)
ScanNest(toks, k) ==
  IF k = 0 THEN [ok |-> TRUE, stack |-> <<>>]
  ELSE LET p == ScanNest(toks, k - 1)
           tok == toks[k]
       IN IF ~p.ok THEN p
          ELSE CASE tok.kind = "open" -> [ok |-> TRUE, stack |-> Append(p.stack, k)]
                 [] tok.kind = "close" ->
                      IF /\ p.stack # <<>>
                         /\ ToLowerCase(toks[p.stack[Len(p.stack)]].name) = ToLowerCase(tok.name)
                      THEN [ok |-> TRUE, stack |-> SubSeq(p.stack, 1, Len(p.stack) - 1)]
                      ELSE [ok |-> FALSE, stack |-> <<>>]
                 [] OTHER -> p

WellNested(toks) == ScanNest(toks, Len(toks)).ok /\ ScanNest(toks, Len(toks)).stack = <<>>

MatchingOpen(toks, j) ==
  LET st == ScanNest(toks, j - 1).stack IN st[Len(st)]

\* The state of the walk before token j.
Before(j) ==
  IF j = 1
  THEN Snapshot(getDefaultStyle, <<getDefaultStyle>>, MergeValidation(validation), <<>>)
  ELSE hist[j - 1]

\* C1 (as claimed): in a properly nested and balanced input, the style in
\* effect after a closing tag is the style that was in effect before its
\* opening tag, whatever handlers are registered.
StackCorrectness ==
  (html.isString /\ WellNested(html.tokens)) =>
    \A j \in 1..Len(hist) :
      html.tokens[j].kind = "close" =>
        hist[j].style = Before(MatchingOpen(html.tokens, j)).style

MentionsUnsupported(errs, t) ==
  \E k \in 1..Len(errs) :
    errs[k].kind = "Unsupported tag" /\ errs[k].what = ToLowerCase(t)

\* C2: "<t>TEXT</t>" with t unregistered and TEXT non-blank returns one
\* segment, TEXT with the default style, and an error naming t; it is not
\* answered with the fallback.
UnsupportedTagKeepsText ==
  (/\ pc = "done"
   /\ html.isString
   /\ Len(html.tokens) = 3
   /\ html.tokens[1].kind = "open"
   /\ html.tokens[2].kind = "text" /\ ~IsBlank(html.tokens[2].text)
   /\ html.tokens[3].kind = "close"
   /\ ToLowerCase(html.tokens[3].name) = ToLowerCase(html.tokens[1].name)
   /\ ~isSupported(registry, html.tokens[1].name))
  => /\ result.returned /\ ~result.fallback
     /\ Len(result.segments) = 1
     /\ result.segments[1].text = html.tokens[2].text
     /\ result.segments[1].style = getDefaultStyle
     /\ MentionsUnsupported(result.errors, html.tokens[1].name)

\* C2 witness: "<Zzz> x</zzz>" has been parsed.
UnsupportedTagParsed ==
  /\ pc = "done"
  /\ html = Str(<<Open("Zzz", NoAttrs), Text(T_x), Close("zzz")>>)
  /\ Len(result.segments) = 1
  /\ result.segments[1].text = T_x
  /\ MentionsUnsupported(result.errors, "zzz")

\* The names on the expected-open stack at the end of the input.
RECURSIVE StillOpen(_, _)
StillOpen(toks, open) ==
  IF toks = <<>> THEN open
  ELSE LET tok == Head(toks)
           n == ToLowerCase(tok.name)
       IN CASE tok.kind = "open" /\ ~isSelfClosingTag(n) -> StillOpen(Tail(toks), Append(open, n))
            [] tok.kind = "close" /\ open # <<>> /\ open[Len(open)] = n ->
                 StillOpen(Tail(toks), SubSeq(open, 1, Len(open) - 1))
            [] OTHER -> StillOpen(Tail(toks), open)

OneUnclosedError(errs, open) ==
  /\ Cardinality({k \in 1..Len(errs) : errs[k].kind = "Unclosed tags"}) = 1
  /\ \E k \in 1..Len(errs) : errs[k].kind = "Unclosed tags" /\ errs[k].tags = open

HandlerFails(tok, reg) ==
  /\ tok.kind = "open"
  /\ getStrategy(reg, tok.name) # ""
  /\ \/ validateAttributesThrows(getStrategy(reg, tok.name))
     \/ /\ applyStyleThrows(getStrategy(reg, tok.name))
        /\ PushesFrame(getStrategy(reg, tok.name), ToLowerCase(tok.name))

WalkFails(h, reg) ==
  ~h.isString \/ \E k \in 1..Len(h.tokens) : HandlerFails(h.tokens[k], reg)

\* C6: parseHTML always returns; when a step of the walk fails it returns
\* the whole input as one default-styled segment and exactly one error, the
\* 'Parse error' diagnostic.
NeverThrows ==
  pc = "done" =>
    /\ result.returned /\ ~result.threw
    /\ WalkFails(html, registry) =>
         /\ result.fallback
         /\ result.segments = <<Seg(html, getDefaultStyle)>>
         /\ Len(result.errors) = 1
         /\ result.errors[1].kind = "Parse error"

\* C6 witness: a handler raised after validateHTML had found errors.
FallbackAfterErrors ==
  /\ pc = "done"
  /\ result.fallback
  /\ html.isString
  /\ ~validation.isValid
  /\ Len(result.errors) = 1

\* An opening tag whose attributes its handler rejects.
AttrFailure(tok, reg) ==
  /\ tok.kind = "open"
  /\ getStrategy(reg, tok.name) # ""
  /\ ~validateAttributes(getStrategy(reg, tok.name), tok.attrs).isValid

Visible(st) == <<st.fontWeight, st.fontStyle, st.color, st.textDecoration, st.fontSize>>

\* C7: an opening tag whose attributes fail validation adds exactly the
\* handler's errors to the error list and is processed like any other: the
\* frame is pushed with the style applyStyle gives, and text that follows is
\* emitted with it.  "<a href="">TEXT</a>" gives one coloured, underlined
\* segment and the one href error.
ValidationIsAdvisory ==
  /\ html.isString =>
       \A j \in 1..Len(hist) :
         AttrFailure(html.tokens[j], registry) =>
           LET tok == html.tokens[j]
               h == getStrategy(registry, tok.name)
               expected == IF h = "List" THEN Before(j).style
                           ELSE applyStyle(h, Before(j).style, tok.attrs, ToLowerCase(tok.name))
           IN /\ SubSeq(errors, Before(j).nerr + 1, hist[j].nerr)
                   = validateAttributes(h, tok.attrs).errors
              /\ PushesFrame(h, ToLowerCase(tok.name)) =>
                   /\ hist[j].depth = Before(j).depth + 1
                   /\ Visible(hist[j].style) = Visible(expected)
                   /\ (/\ j < Len(hist)
                       /\ html.tokens[j + 1].kind = "text"
                       /\ ~IsBlank(html.tokens[j + 1].text))
                        => /\ hist[j + 1].nseg > hist[j].nseg
                           /\ segments[hist[j + 1].nseg].style = hist[j].style
  /\ (/\ pc = "done"
      /\ Len(html.tokens) = 3
      /\ html.tokens[1] = Open("a", HrefEmpty)
      /\ html.tokens[2].kind = "text" /\ ~IsBlank(html.tokens[2].text)
      /\ html.tokens[3] = Close("a")
      /\ getStrategy(registry, "a") = "Hyperlink")
       => /\ Len(result.segments) = 1
          /\ result.segments[1].text = html.tokens[2].text
          /\ result.segments[1].style.color = "#0066cc"
          /\ result.segments[1].style.textDecoration = "underline"
          /\ result.errors = <<Err("Missing href attribute", "href")>>

\* C7 witness: the anchor with the empty href has been parsed.
EmptyHrefParsed ==
  /\ pc = "done"
  /\ html = Str(<<Open("a", HrefEmpty), Text(T_hi), Close("a")>>)
  /\ Len(result.segments) = 1
  /\ result.segments[1].style.textDecoration = "underline"
  /\ Len(result.errors) = 1

\* C8 (as claimed): validateHTML answers isValid = false, with errors, for a
\* balanced input of supported tags in which an opening tag's attributes
\* fail its handler's validateAttributes.
ValidateHTMLReportsAttributes ==
  (/\ pc # "ready"
   /\ html.isString
   /\ WellNested(html.tokens)
   /\ \A k \in 1..Len(html.tokens) :
        html.tokens[k].kind = "open" => isSupported(registry, html.tokens[k].name)
   /\ \E k \in 1..Len(html.tokens) : AttrFailure(html.tokens[k], registry))
  => /\ ~validation.isValid
     /\ validation.errors # <<>>


(***************************************************************************)
(* TextLayoutEngine                                                        *)
(***************************************************************************)
\* The longest segment text, in characters, and the most segments of a
\* layout run.
MaxTextLen == 4
MaxSegs == 2

\* One pixel, in the unit of the lengths below.
Px == 1000 * 100

\* new TextLayoutEngine({}): fontSize 14, startX 10, startY 30,
\* lineHeight 1.4 x fontSize.
DefaultEngine ==
  [fontSize |-> 14 * Px, fontFamily |-> "Arial, sans-serif",
   startX |-> 10 * Px, startY |-> 30 * Px,
   lineHeight |-> (14 * Px * 14) \div 10]

\* measureText without a canvas (measureTextFallback): 0.6 x font size per
\* character, x 1.15 when bold, x 1.05 when italic; the height is the font
\* size.  A style's fontSize is in 1/100 px.
FontSizeOf(style, eng) ==
  IF style.fontSize # 0 THEN style.fontSize * (Px \div 100) ELSE eng.fontSize

CharWidth(style, eng) ==
  LET base == (FontSizeOf(style, eng) * 6) \div 10
      bold == IF style.fontWeight = "bold" THEN (base * 115) \div 100 ELSE base
  IN IF style.fontStyle = "italic" THEN (bold * 105) \div 100 ELSE bold

measureText(text, style, eng) ==
  [width |-> Len(text) * CharWidth(style, eng), height |-> FontSizeOf(style, eng)]

\* isHeadingStyle: bold, and the font size is a key of inverseHeadingSizes.
isHeadingStyle(style) ==
  style.fontWeight = "bold" /\ style.fontSize \in {3200, 2400, 1872, 1600, 1328, 1072}

\* isUnstyledSegment.
isUnstyledSegment(style) ==
  /\ style.fontWeight = "normal"
  /\ style.fontStyle = "normal"
  /\ style.textDecoration = "none"
  /\ style.color = "#000000"

\* text.split(' '), empty words included.
RECURSIVE SplitAcc(_, _, _)
SplitAcc(text, word, words) ==
  IF text = <<>> THEN Append(words, word)
  ELSE IF Head(text) = " " THEN SplitAcc(Tail(text), <<>>, Append(words, word))
  ELSE SplitAcc(Tail(text), Append(word, Head(text)), words)

split(text) == SplitAcc(text, <<>>, <<>>)

includesSpace(text) == \E k \in 1..Len(text) : text[k] = " "

\* maxWidth ?? 400; an omitted maxWidth is 0 here.
wrapWidthOf(maxWidth) == IF maxWidth = 0 THEN 400 * Px ELSE maxWidth

\* A positioned fragment.  src, lineY and wrapped are history fields: the
\* segment it comes from, currentY when it was pushed, and whether the word
\* loop pushed it.
Fragment(seg, k, text, x, y, m, lineY, wrapped) ==
  [text |-> text, style |-> seg.style, x |-> x, y |-> y,
   width |-> m.width, height |-> m.height, src |-> k, lineY |-> lineY, wrapped |-> wrapped]

\* A wrap test against the default width instead of the width given.
MustFlushAtDefaultWidth(testWidth, wrapWidth, currentLine) ==
  testWidth > 400 * Px /\ currentLine # <<>>

\* The test of the word loop: the line with the next word is too wide and
\* there is a line to flush.
MustFlush(testWidth, wrapWidth, currentLine) ==
  testWidth > wrapWidth /\ currentLine # <<>>

\* A line joined to the next word without the space between them.
TestLineUnspaced(currentLine, word) == currentLine \o word

\* testLine: the line in the buffer with the next word after a space.
TestLine(currentLine, word) ==
  IF currentLine # <<>> THEN currentLine \o <<" ">> \o word ELSE word

\* The word loop of layoutSegments from word i on: the fragments flushed,
\* the cursor, and the line still in the buffer.
RECURSIVE WrapWords(_, _, _, _, _, _, _, _, _, _)
WrapWords(words, i, currentLine, x, y, frags, seg, k, eng, wrapWidth) ==
  IF i > Len(words) THEN [frags |-> frags, x |-> x, y |-> y, line |-> currentLine]
  ELSE IF words[i] = <<>>
  THEN WrapWords(words, i + 1, currentLine, x, y, frags, seg, k, eng, wrapWidth)
  ELSE LET testLine == TestLine(currentLine, words[i])
       IN IF MustFlush(measureText(testLine, seg.style, eng).width, wrapWidth, currentLine)
          THEN WrapWords(words, i + 1, words[i], eng.startX, y + eng.lineHeight,
                         Append(frags, Fragment(seg, k, currentLine, x, y,
                                                measureText(currentLine, seg.style, eng),
                                                y, TRUE)),
                         seg, k, eng, wrapWidth)
          ELSE WrapWords(words, i + 1, testLine, x, y, frags, seg, k, eng, wrapWidth)

\* A line break that returns to the line start without moving down.
ExplicitLineBreakKeepingLine(cur, eng) == [x |-> eng.startX, y |-> cur.y]

\* The cursor after an explicit line break.
ExplicitLineBreak(cur, eng) == [x |-> eng.startX, y |-> cur.y + eng.lineHeight]

\* One iteration of layoutSegments' loop on segment k: the fragments and
\* the cursor it leaves.
LayoutOne(seg, k, frags, cur, eng, wrapWidth) ==
  IF seg.text = Marker
  THEN [frags |-> frags, x |-> ExplicitLineBreak(cur, eng).x,
        y |-> ExplicitLineBreak(cur, eng).y]
  ELSE
    LET m == measureText(seg.text, seg.style, eng)
        segmentLineHeight == Max(eng.lineHeight, m.height)
        isHeading == isHeadingStyle(seg.style)
        spaced == isHeading /\ cur.x > eng.startX
        x0 == IF spaced THEN eng.startX ELSE cur.x
        y0 == IF spaced THEN cur.y + (segmentLineHeight * 3) \div 4 ELSE cur.y
    IN IF m.width > wrapWidth /\ includesSpace(seg.text)
       THEN LET w == WrapWords(split(seg.text), 1, <<>>, x0, y0, frags, seg, k, eng, wrapWidth)
                lm == measureText(w.line, seg.style, eng)
            IN IF w.line # <<>>
               THEN [frags |-> Append(w.frags,
                                      Fragment(seg, k, w.line, w.x, w.y, lm, w.y, TRUE)),
                     x |-> w.x + lm.width, y |-> w.y]
               ELSE [frags |-> w.frags, x |-> w.x, y |-> w.y]
       ELSE LET brk == x0 > eng.startX /\ x0 + m.width > wrapWidth
                x1 == IF brk THEN eng.startX ELSE x0
                y1 == IF brk THEN y0 + segmentLineHeight ELSE y0
                offsetX == IF isUnstyledSegment(seg.style) THEN 2 * Px ELSE 0
                placed == Append(frags,
                                 Fragment(seg, k, seg.text, x1 + offsetX,
                                          y1 + (segmentLineHeight - m.height), m, y1, FALSE))
            IN IF isHeading
               THEN [frags |-> placed, x |-> eng.startX,
                     y |-> y1 + (segmentLineHeight * 6) \div 5]
               ELSE [frags |-> placed,
                     x |-> x1 + m.width + measureText(<<" ">>, seg.style, eng).width,
                     y |-> y1]

\* Math.max over the fragments.
MaxOf(S) == CHOOSE v \in S : \A u \in S : u <= v

\* Bounds that end at the outermost edges, without padding.
calculateBoundsUnpadded(frags) ==
  IF frags = <<>> THEN [width |-> 0, height |-> 0]
  ELSE [width |-> MaxOf({frags[k].x + frags[k].width : k \in 1..Len(frags)}),
        height |-> MaxOf({frags[k].y + frags[k].height : k \in 1..Len(frags)})]

\* calculateBounds.
calculateBounds(frags) ==
  IF frags = <<>> THEN [width |-> 0, height |-> 0]
  ELSE [width |-> MaxOf({frags[k].x + frags[k].width : k \in 1..Len(frags)}) + 20 * Px,
        height |-> MaxOf({frags[k].y + frags[k].height : k \in 1..Len(frags)}) + 10 * Px]

\* The segments, widths and styles of the layout runs.
LayoutChars == {"a", " "}
LayoutTexts == UNION {[1..n -> LayoutChars] : n \in 1..MaxTextLen}
HeadingOne == [getDefaultStyle EXCEPT !.fontWeight = "bold", !.fontSize = 3200]
LayoutStyles == {getDefaultStyle, HeadingOne}
LayoutSegs ==
  {Seg(t, st) : t \in LayoutTexts, st \in LayoutStyles} \cup {Seg(Marker, getDefaultStyle)}
LayoutWidths == {0, 20 * Px, 30 * Px}

\* The segments laid out before the last one: a word, a text of two words
\* and a trailing space, a heading and a line break, which leave the cursor
\* on the same line, further down or at the start of a line.
LayoutLeads ==
  { Seg(<<"a">>, getDefaultStyle), Seg(<<"a", " ", "a", " ">>, getDefaultStyle),
    Seg(<<"a">>, HeadingOne), Seg(Marker, getDefaultStyle) }

\* layoutSegments' first argument: nothing, or leading segments and any
\* segment after them.
LayoutInputs ==
  {<<>>} \cup {lead \o <<s>> : lead \in SeqsUpTo(LayoutLeads, MaxSegs - 1), s \in LayoutSegs}

InitLayout ==
  /\ registry = EmptyRegistry
  /\ pre = EmptyRegistry
  /\ call = NoCall
  /\ IdleParse
  /\ pc = "layout"
  /\ engine = DefaultEngine
  /\ layIn \in [segments : LayoutInputs, maxWidth : LayoutWidths]
  /\ cursor = [x |-> DefaultEngine.startX, y |-> DefaultEngine.startY]
  /\ positioned = <<>>
  /\ IdleGenerator

LayingOut == pc = "layout" /\ idx < Len(layIn.segments)

LayoutStep ==
  LET r == LayoutOne(layIn.segments[idx + 1], idx + 1, positioned, cursor, engine,
                     wrapWidthOf(layIn.maxWidth))
  IN /\ positioned' = r.frags
     /\ cursor' = [x |-> r.x, y |-> r.y]
     /\ idx' = idx + 1
     /\ UNCHANGED <<pc, engine, layIn, genVars, regVars, html, styleStack, currentStyle, segments,
                    errors, validation, isInListItem, listItemPrefixAdded, listStack,
                    listCounters, result, hist>>

\* An iteration on a line-break marker.
LayoutBreak ==
  /\ LayingOut
  /\ layIn.segments[idx + 1].text = Marker
  /\ LayoutStep

\* An iteration on a segment that is word-wrapped.
LayoutWrap ==
  /\ LayingOut
  /\ layIn.segments[idx + 1].text # Marker
  /\ measureText(layIn.segments[idx + 1].text, layIn.segments[idx + 1].style, engine).width
       > wrapWidthOf(layIn.maxWidth)
  /\ includesSpace(layIn.segments[idx + 1].text)
  /\ LayoutStep

\* An iteration on a segment that is placed whole.
LayoutPlace ==
  /\ LayingOut
  /\ layIn.segments[idx + 1].text # Marker
  /\ ~(/\ measureText(layIn.segments[idx + 1].text, layIn.segments[idx + 1].style,
                      engine).width > wrapWidthOf(layIn.maxWidth)
       /\ includesSpace(layIn.segments[idx + 1].text))
  /\ LayoutStep

\* The return of layoutSegments.
LayoutReturn ==
  /\ pc = "layout"
  /\ idx = Len(layIn.segments)
  /\ pc' = "laid"
  /\ UNCHANGED <<parseVars, regVars, layVars>>

\* calculateBounds on the fragments layoutSegments returned.
CalculateBounds ==
  /\ pc = "laid"
  /\ bounds' = calculateBounds(positioned)
  /\ pc' = "bounded"
  /\ UNCHANGED <<parseVars, regVars, engine, layIn, cursor, positioned, styleGroups, layers>>

NextLayout == LayoutBreak \/ LayoutWrap \/ LayoutPlace \/ LayoutReturn \/ CalculateBounds

SpecLayout == InitLayout /\ [][NextLayout]_vars

(***************************************************************************)
(* TextLayoutEngine: options                                               *)
(***************************************************************************)
\* An options object is a function on the keys it gives a value for; a key
\* outside its domain is undefined.
OptionKeys == {"fontSize", "fontFamily", "startX", "startY", "lineHeight"}

\* options.key ?? fallback.
OrElse(o, key, fallback) == IF key \in DOMAIN o THEN o[key] ELSE fallback

\* The values the runs give to each option; 14 px is also 1.4 x 10 px.
OptionValues(key) ==
  CASE key = "fontSize" -> {10 * Px, 20 * Px}
    [] key = "fontFamily" -> {"serif"}
    [] key = "startX" -> {0, 5 * Px}
    [] key = "startY" -> {0}
    [] key = "lineHeight" -> {14 * Px, 30 * Px}

AllOptions ==
  {[k \in given |-> full[k]] :
     full \in [fontSize : OptionValues("fontSize"), fontFamily : OptionValues("fontFamily"),
               startX : OptionValues("startX"), startY : OptionValues("startY"),
               lineHeight : OptionValues("lineHeight")],
     given \in SUBSET OptionKeys}

\* new TextLayoutEngine(options).
TextLayoutEngine(o) ==
  [fontSize |-> OrElse(o, "fontSize", 14 * Px),
   fontFamily |-> OrElse(o, "fontFamily", "Arial, sans-serif"),
   startX |-> OrElse(o, "startX", 10 * Px),
   startY |-> OrElse(o, "startY", 30 * Px),
   lineHeight |-> OrElse(o, "lineHeight", (OrElse(o, "fontSize", 14 * Px) * 14) \div 10)]

\* An updateOptions that never derives the line height from the font size.
UpdateOptionsKeepingLineHeight(eng, o) ==
  [k \in DOMAIN eng |-> OrElse(o, k, eng[k])]

\* updateOptions: the engine's fields after the call.
UpdateOptions(eng, o) ==
  LET sized == IF "fontSize" \in DOMAIN o
               THEN [eng EXCEPT !.fontSize = o["fontSize"],
                                !.lineHeight = OrElse(o, "lineHeight", (o["fontSize"] * 14) \div 10)]
               ELSE eng
      family == IF "fontFamily" \in DOMAIN o
                THEN [sized EXCEPT !.fontFamily = o["fontFamily"]] ELSE sized
      atX == IF "startX" \in DOMAIN o THEN [family EXCEPT !.startX = o["startX"]] ELSE family
      atY == IF "startY" \in DOMAIN o THEN [atX EXCEPT !.startY = o["startY"]] ELSE atX
  IN IF "lineHeight" \in DOMAIN o THEN [atY EXCEPT !.lineHeight = o["lineHeight"]] ELSE atY

\* An engine just constructed.
InitOptions ==
  /\ registry = EmptyRegistry
  /\ pre = EmptyRegistry
  /\ call = NoCall
  /\ IdleParse
  /\ pc = "options"
  /\ \E o \in AllOptions : engine = TextLayoutEngine(o)
  /\ layIn = [segments |-> <<>>, maxWidth |-> 0]
  /\ cursor = [x |-> 0, y |-> 0]
  /\ positioned = <<>>
  /\ IdleGenerator

\* updateOptions(o); call keeps the argument and the fields before the call.
updateOptions(o) ==
  /\ pc = "options"
  /\ engine' = UpdateOptions(engine, o)
  /\ call' = [op |-> "updateOptions", arg |-> o, strategy |-> "", ret |-> engine]
  /\ UNCHANGED <<pc, registry, pre, parseVars, layIn, cursor, positioned, genVars>>

NextOptions == \E o \in AllOptions : updateOptions(o)

SpecOptions == InitOptions /\ [][NextOptions]_vars

\* C21: after updateOptions(o) the line height is o.lineHeight when o gives
\* it, else 1.4 x the new font size when o gives fontSize, else what it
\* was; every other option o does not give has kept its value.
UpdateOptionsLineHeight ==
  call.op = "updateOptions" =>
    LET o == call.arg
        before == call.ret
    IN /\ "lineHeight" \in DOMAIN o => engine.lineHeight = o["lineHeight"]
       /\ ("fontSize" \in DOMAIN o /\ "lineHeight" \notin DOMAIN o)
            => /\ engine.fontSize = o["fontSize"]
               /\ engine.lineHeight * 10 = engine.fontSize * 14
       /\ ("fontSize" \notin DOMAIN o /\ "lineHeight" \notin DOMAIN o)
            => engine.lineHeight = before.lineHeight
       /\ \A k \in {"fontSize", "fontFamily", "startX", "startY"} \ DOMAIN o :
            engine[k] = before[k]

\* C21 witness: a line height pinned at 30 px has been replaced by 1.4 x
\* the font size by a call that gave only fontSize.
LineHeightRecomputed ==
  /\ call.op = "updateOptions"
  /\ DOMAIN call.arg = {"fontSize"}
  /\ call.ret.lineHeight = 30 * Px
  /\ call.ret.startX = 5 * Px
  /\ engine.lineHeight = (call.arg["fontSize"] * 14) \div 10
  /\ engine.startX = 5 * Px

(***************************************************************************)
(* VegaLiteGenerator: style groups and layers                              *)
(***************************************************************************)
\* The longest fragment list handed to generateSpec.
MaxFrags == 3

\* createStyleKey: the fields joined by "-", an absent fontSize written
\* "default".
createStyleKey(f) ==
  f.style.fontWeight \o "-" \o f.style.fontStyle \o "-" \o f.style.color \o "-"
    \o f.style.textDecoration \o "-"
    \o (IF f.style.fontSize = 0 THEN "default" ELSE ToString(f.style.fontSize))

\* The position of the group with this key, 0 when there is none.
GroupOf(groups, key) ==
  IF \E g \in 1..Len(groups) : groups[g].key = key
  THEN CHOOSE g \in 1..Len(groups) : groups[g].key = key
  ELSE 0

\* A grouping that joins a fragment to the group before it only.
groupSegmentAdjacent(groups, f) ==
  IF groups # <<>> /\ groups[Len(groups)].key = createStyleKey(f)
  THEN [groups EXCEPT ![Len(groups)].data = Append(@, f)]
  ELSE Append(groups, [key |-> createStyleKey(f), style |-> f.style, data |-> <<f>>])

\* One step of the grouping: the fragment joins the group of its key, or
\* opens a new group after the existing ones.
groupSegment(groups, f) ==
  LET key == createStyleKey(f)
      g == GroupOf(groups, key)
  IN IF g # 0 THEN [groups EXCEPT ![g].data = Append(@, f)]
     ELSE Append(groups, [key |-> key, style |-> f.style, data |-> <<f>>])

\* createLayer and createUnderlineLayer: a text layer and a rule layer
\* carrying the group's fragments.
createLayer(group) ==
  [type |-> "text", key |-> group.key, style |-> group.style, data |-> group.data]
createUnderlineLayer(group) ==
  [type |-> "rule", key |-> group.key, style |-> group.style, data |-> group.data]

\* The decoration layers of a group: one for an underlined group.
decorationLayers(group) ==
  IF group.style.textDecoration = "underline" THEN <<createUnderlineLayer(group)>> ELSE <<>>

\* createLayers: per group, in insertion order, the text layer and then the
\* decoration layers (no handler sets backgroundColor, so
\* createBackgroundLayer adds nothing).
RECURSIVE createLayers(_)
createLayers(groups) ==
  IF groups = <<>> THEN <<>>
  ELSE <<createLayer(Head(groups))>> \o decorationLayers(Head(groups))
         \o createLayers(Tail(groups))

\* The styles of the fragments handed to generateSpec: default, bold, a
\* hyperlink's, a strikethrough's and a heading's.
GenStyles ==
  { getDefaultStyle,
    [getDefaultStyle EXCEPT !.fontWeight = "bold"],
    [getDefaultStyle EXCEPT !.color = "#0066cc", !.textDecoration = "underline"],
    [getDefaultStyle EXCEPT !.color = "#6c757d", !.textDecoration = "line-through"],
    [getDefaultStyle EXCEPT !.fontSize = 3200] }

\* Fragment k of a fragment list with these styles.
GenFragment(st, k) ==
  [text |-> <<"a">>, style |-> st, x |-> DefaultEngine.startX + (k - 1) * 10 * Px,
   y |-> DefaultEngine.startY, width |-> measureText(<<"a">>, st, DefaultEngine).width,
   height |-> measureText(<<"a">>, st, DefaultEngine).height, src |-> k]

GenInputs ==
  {[k \in 1..Len(sts) |-> GenFragment(sts[k], k)] : sts \in SeqsUpTo(GenStyles, MaxFrags)}

InitGenerate ==
  /\ registry = EmptyRegistry
  /\ pre = EmptyRegistry
  /\ call = NoCall
  /\ IdleParse
  /\ pc = "group"
  /\ engine = DefaultEngine
  /\ layIn = [segments |-> <<>>, maxWidth |-> 0]
  /\ cursor = [x |-> 0, y |-> 0]
  /\ positioned \in GenInputs
  /\ bounds = calculateBounds(positioned)
  /\ styleGroups = <<>>
  /\ layers = <<>>

\* The grouping loop of generateSpec, one fragment per step.
GroupSegment ==
  /\ pc = "group"
  /\ idx < Len(positioned)
  /\ styleGroups' = groupSegment(styleGroups, positioned[idx + 1])
  /\ idx' = idx + 1
  /\ UNCHANGED <<pc, regVars, html, styleStack, currentStyle, segments, errors, validation,
                 isInListItem, listItemPrefixAdded, listStack, listCounters, result, hist,
                 engine, layIn, cursor, positioned, bounds, layers>>

\* The layers of the specification generateSpec returns.
CreateLayers ==
  /\ pc = "group"
  /\ idx = Len(positioned)
  /\ layers' = createLayers(styleGroups)
  /\ pc' = "generated"
  /\ UNCHANGED <<regVars, parseVars, engine, layIn, cursor, positioned, bounds, styleGroups>>

NextGenerate == GroupSegment \/ CreateLayers

SpecGenerate == InitGenerate /\ [][NextGenerate]_vars

(***************************************************************************)
(* Generator properties                                                    *)
(***************************************************************************)
StyleTuple(st) == <<st.fontWeight, st.fontStyle, st.color, st.textDecoration, st.fontSize>>

TextLayers == {l \in 1..Len(layers) : layers[l].type = "text"}

FirstSeen(tuple) ==
  CHOOSE k \in 1..Len(positioned) :
    /\ StyleTuple(positioned[k].style) = tuple
    /\ \A j \in 1..(k - 1) : StyleTuple(positioned[j].style) # tuple

\* C12: one text layer per distinct style tuple among the fragments; every
\* fragment lies in exactly one text layer, the one of its tuple, adjacent
\* or not; the layers follow the order in which the tuples were first seen.
OneLayerPerStyle ==
  pc = "generated" =>
    /\ Cardinality(TextLayers)
         = Cardinality({StyleTuple(positioned[k].style) : k \in 1..Len(positioned)})
    /\ \A k \in 1..Len(positioned) :
         /\ Cardinality({<<l, d>> \in UNION {{<<m, e>> : e \in 1..Len(layers[m].data)} :
                                              m \in TextLayers} :
                           layers[l].data[d].src = k}) = 1
         /\ \E l \in TextLayers :
              /\ StyleTuple(layers[l].style) = StyleTuple(positioned[k].style)
              /\ \E d \in 1..Len(layers[l].data) : layers[l].data[d] = positioned[k]
    /\ \A l, m \in TextLayers :
         l < m => FirstSeen(StyleTuple(layers[l].style)) < FirstSeen(StyleTuple(layers[m].style))

\* C12 witness: two fragments of one style with a fragment of another style
\* between them, in two text layers.
SeparatedFragmentsGrouped ==
  /\ pc = "generated"
  /\ Len(positioned) = 3
  /\ StyleTuple(positioned[1].style) = StyleTuple(positioned[3].style)
  /\ StyleTuple(positioned[1].style) # StyleTuple(positioned[2].style)
  /\ Cardinality(TextLayers) = 2
  /\ Len(layers[1].data) = 2

Decorated(st) == st.textDecoration \in {"underline", "line-through"}

\* C13 (as claimed): a group whose textDecoration is underline or
\* line-through has exactly one rule layer, directly after its text layer,
\* and a group with textDecoration none has none.
DecorationPairing ==
  pc = "generated" =>
    /\ \A l \in TextLayers :
         Decorated(layers[l].style) <=>
           (l < Len(layers) /\ layers[l + 1].type = "rule" /\ layers[l + 1].key = layers[l].key)
    /\ \A l \in 1..Len(layers) :
         layers[l].type = "rule" =>
           /\ l > 1 /\ layers[l - 1].type = "text" /\ layers[l - 1].key = layers[l].key
           /\ Cardinality({m \in 1..Len(layers) :
                             layers[m].type = "rule" /\ layers[m].key = layers[l].key}) = 1


(***************************************************************************)
(* Tag strategies called directly                                          *)
(***************************************************************************)
\* The longest sequence of applyStyle calls.
MaxCalls == 3

\* A style that differs from the default in every visible field but the
\* weight.
StyledStyle ==
  [getDefaultStyle EXCEPT !.fontStyle = "italic", !.color = "#FF0000",
                          !.textDecoration = "underline", !.fontSize = 2400]

BuiltInStrategies ==
  {"Bold", "Italic", "Underline", "Span", "Heading", "Paragraph", "Hyperlink", "LineBreak",
   "Code", "SmallText", "Highlight", "Strikethrough", "List"}

ApplyStyleCallOf(h, st, attrs, tagName) ==
  [handler |-> h, style |-> st, attrs |-> attrs, tagName |-> tagName]

\* The applyStyle calls of the runs: headings with every tag name and
\* without one, on two styles; the list handler; every other handler on its
\* first tag name, the span with and without a colour.
StrategyCalls ==
  {ApplyStyleCallOf("Heading", st, NoAttrs, t) :
     st \in {getDefaultStyle, StyledStyle}, t \in Range(getTagNames("Heading")) \cup {""}}
  \cup {ApplyStyleCallOf("List", getDefaultStyle, NoAttrs, t) : t \in Range(getTagNames("List"))}
  \cup {ApplyStyleCallOf(h, StyledStyle, NoAttrs, getTagNames(h)[1]) :
          h \in BuiltInStrategies \ {"Heading", "List"}}
  \cup {ApplyStyleCallOf("Span", StyledStyle, StyleColor, "span")}

InitStrategy ==
  /\ registry = EmptyRegistry
  /\ pre = EmptyRegistry
  /\ call = NoCall
  /\ html = [isString |-> TRUE, tokens |-> <<>>]
  /\ pc = "strategy"
  /\ idx = 0
  /\ styleStack = <<>>
  /\ currentStyle = getDefaultStyle
  /\ segments = <<>>
  /\ errors = <<>>
  /\ validation = Valid
  /\ isInListItem = FALSE
  /\ listItemPrefixAdded = FALSE
  /\ listStack = <<>>
  /\ listCounters = [k \in {} |-> 0]
  /\ result = NoResult
  /\ hist = <<>>
  /\ IdleLayout

\* strategy.applyStyle(currentStyle, attributes, tagName), called on a
\* handler instance.  currentStyle is the caller's object after the call:
\* every handler copies it ({ ...currentStyle }) and writes to the copy.
\* hist keeps each call with what it returned and the static list state
\* before and after it.
applyStyleCall ==
  /\ pc = "strategy"
  /\ Len(hist) < MaxCalls
  /\ \E c \in StrategyCalls :
       LET r == CallApplyStyle(c.handler, c.style, c.attrs, c.tagName, listStack, listCounters)
       IN /\ currentStyle' = c.style
          /\ listStack' = r.stack
          /\ listCounters' = r.counters
          /\ hist' = Append(hist, [call |-> c, ret |-> r.style, argAfter |-> c.style,
                                   before |-> <<listStack, listCounters>>,
                                   after |-> <<r.stack, r.counters>>])
  /\ UNCHANGED <<regVars, layVars, html, pc, idx, styleStack, segments, errors, validation,
                 isInListItem, listItemPrefixAdded, result>>

\* ListTagStrategy.resetListState().
resetListState ==
  /\ pc = "strategy"
  /\ listStack' = <<>>
  /\ listCounters' = [k \in {} |-> 0]
  /\ UNCHANGED <<regVars, layVars, html, pc, idx, styleStack, currentStyle, segments, errors,
                 validation, isInListItem, listItemPrefixAdded, result, hist>>

NextStrategy == applyStyleCall \/ resetListState

SpecStrategy == InitStrategy /\ [][NextStrategy]_vars

(***************************************************************************)
(* Strategy properties                                                     *)
(***************************************************************************)
\* C15: HeadingTagStrategy.applyStyle with tagName h1..h6 returns fontSize
\* 32, 24, 18.72, 16, 13.28, 10.72 and fontWeight bold, and leaves every
\* other field as in the current style.
HeadingSizeTable ==
  \A k \in 1..Len(hist) :
    LET c == hist[k].call
        size == [h1 |-> 3200, h2 |-> 2400, h3 |-> 1872, h4 |-> 1600, h5 |-> 1328, h6 |-> 1072]
    IN (c.handler = "Heading" /\ c.tagName \in DOMAIN size) =>
         /\ hist[k].ret.fontSize = size[c.tagName]
         /\ hist[k].ret.fontWeight = "bold"
         /\ hist[k].ret = [c.style EXCEPT !.fontSize = size[c.tagName], !.fontWeight = "bold"]

\* C15 witness: h3 and h6 have been applied to a style that is neither bold
\* nor of those sizes.
HeadingsApplied ==
  /\ \E k \in 1..Len(hist) :
       /\ hist[k].call = ApplyStyleCallOf("Heading", StyledStyle, NoAttrs, "h3")
       /\ hist[k].ret.fontSize = 1872
  /\ \E k \in 1..Len(hist) :
       /\ hist[k].call = ApplyStyleCallOf("Heading", StyledStyle, NoAttrs, "h6")
       /\ hist[k].ret.fontStyle = "italic"

\* C16 (as claimed): applyStyle of a built-in handler leaves its argument
\* and all other state as they were, and calls with equal arguments return
\* equal styles whatever was called in between.
ApplyStyleIsPure ==
  /\ \A k \in 1..Len(hist) :
       /\ hist[k].argAfter = hist[k].call.style
       /\ hist[k].after = hist[k].before
  /\ \A j, k \in 1..Len(hist) :
       hist[j].call = hist[k].call => hist[j].ret = hist[k].ret


(***************************************************************************)
(* parseHTML called again                                                  *)
(***************************************************************************)
\* The static list state earlier parseHTML calls leave behind: none, that
\* of '<ol><li>a</li><li>b' and that of '<ul><ol><li>a'.
LeftoverListStates ==
  { [stack |-> <<>>, counters |-> [k \in {} |-> 0]],
    [stack |-> <<"ol">>, counters |-> [k \in {1} |-> 2]],
    [stack |-> <<"ul", "ol">>, counters |-> [k \in {2} |-> 1]] }

ReparseAlphabet ==
  {Open("ol", NoAttrs), Open("li", NoAttrs), Close("ol"), Text(T_x), Open("boom", NoAttrs)}

\* A parser whose earlier calls left some list state, about to parse.
InitReparse ==
  /\ registry = CustomRegistry
  /\ html \in Inputs([reg |-> CustomRegistry, alphabet |-> ReparseAlphabet])
  /\ \E left \in LeftoverListStates :
       /\ listStack = left.stack
       /\ listCounters = left.counters
  /\ pre = EmptyRegistry
  /\ call = NoCall
  /\ pc = "ready"
  /\ idx = 0
  /\ styleStack = <<>>
  /\ currentStyle = getDefaultStyle
  /\ segments = <<>>
  /\ errors = <<>>
  /\ validation = Valid
  /\ isInListItem = FALSE
  /\ listItemPrefixAdded = FALSE
  /\ result = NoResult
  /\ hist = <<>>
  /\ IdleLayout

\* parseHTML is called a second time with the same input; call keeps what
\* the first call returned.
parseAgain ==
  /\ pc = "done"
  /\ call.op = "none"
  /\ call' = [op |-> "parseHTML", arg |-> "", strategy |-> "", ret |-> result]
  /\ pc' = "ready"
  /\ idx' = 0
  /\ styleStack' = <<>>
  /\ currentStyle' = getDefaultStyle
  /\ segments' = <<>>
  /\ errors' = <<>>
  /\ validation' = Valid
  /\ isInListItem' = FALSE
  /\ listItemPrefixAdded' = FALSE
  /\ result' = NoResult
  /\ hist' = <<>>
  /\ UNCHANGED <<registry, pre, html, listStack, listCounters, layVars>>

NextReparse == parseHTML \/ WalkText \/ WalkClose \/ WalkOpen \/ ParseReturn \/ parseAgain

SpecReparse == InitReparse /\ [][NextReparse]_vars

\* C17: a second parseHTML call with the same input returns what the first
\* returned, whatever list state earlier calls left behind; the walk starts
\* from an empty list state, and the first item of an ordered list that
\* opens the input is numbered 1.
ParseDependsOnInputOnly ==
  /\ (pc = "done" /\ call.op = "parseHTML") => result = call.ret
  /\ (pc = "walk" /\ idx = 1) => (listStack = <<>> /\ listCounters = [k \in {} |-> 0])
  /\ (/\ pc = "done" /\ html.isString /\ ~result.fallback
      /\ Len(html.tokens) >= 3
      /\ html.tokens[1] = Open("ol", NoAttrs)
      /\ html.tokens[2] = Open("li", NoAttrs)
      /\ html.tokens[3].kind = "text")
     => \E k \in 1..Len(result.segments) :
          /\ result.segments[k].text = <<"1", ".", " ">>
          /\ \A j \in 1..(k - 1) : result.segments[j].text = Marker

\* C17 witness: an input that leaves its ordered list open has been parsed
\* twice, the first time after a call that had left a list open.
ParsedTwice ==
  /\ pc = "done"
  /\ call.op = "parseHTML"
  /\ html = Str(<<Open("ol", NoAttrs), Open("li", NoAttrs), Text(T_x)>>)
  /\ listStack = <<"ol">>
  /\ result.segments # <<>>


(***************************************************************************)
(* Layout properties                                                       *)
(***************************************************************************)
SegWidth(k) == measureText(layIn.segments[k].text, layIn.segments[k].style, engine).width

Wrapped(k) ==
  /\ layIn.segments[k].text # Marker
  /\ SegWidth(k) > wrapWidthOf(layIn.maxWidth)
  /\ includesSpace(layIn.segments[k].text)

\* C9: every fragment of a segment that is wider than the wrap width and
\* contains a space measures at most the wrap width, unless it is a single
\* word; its width is the measured width of its text, and every such
\* segment with a word in it is laid out.
WrappedFragmentsFit ==
  /\ \A f \in 1..Len(positioned) :
       Wrapped(positioned[f].src) =>
         /\ positioned[f].width
              = measureText(positioned[f].text, positioned[f].style, engine).width
         /\ positioned[f].text # <<>>
         /\ \/ positioned[f].width <= wrapWidthOf(layIn.maxWidth)
            \/ ~includesSpace(positioned[f].text)
  /\ pc = "laid" =>
       \A k \in 1..Len(layIn.segments) :
         (Wrapped(k) /\ \E c \in Range(layIn.segments[k].text) : c # " ")
           => \E f \in 1..Len(positioned) : positioned[f].src = k

\* C9 witness: a layout with a wrapped fragment of several words within the
\* width and a wrapped single word beyond it.
WrappedBothWays ==
  /\ pc = "laid"
  /\ \E f \in 1..Len(positioned) :
       /\ Wrapped(positioned[f].src)
       /\ includesSpace(positioned[f].text)
       /\ positioned[f].width <= wrapWidthOf(layIn.maxWidth)
  /\ \E f \in 1..Len(positioned) :
       /\ Wrapped(positioned[f].src)
       /\ positioned[f].width > wrapWidthOf(layIn.maxWidth)

NoWordWiderThan(W) ==
  \A k \in 1..Len(layIn.segments) :
    layIn.segments[k].text # Marker =>
      \A w \in Range(split(layIn.segments[k].text)) :
        measureText(w, layIn.segments[k].style, engine).width <= W

\* C10 (as claimed): when no word is wider than the wrap width, the width
\* calculateBounds gives for the fragments is at most the wrap width.
BoundsWithinWrapWidth ==
  (pc = "laid" /\ NoWordWiderThan(wrapWidthOf(layIn.maxWidth)))
    => calculateBounds(positioned).width <= wrapWidthOf(layIn.maxWidth)

RightEdge(f) == positioned[f].x + positioned[f].width
BottomEdge(f) == positioned[f].y + positioned[f].height

TagFree(toks) == \A k \in 1..Len(toks) : toks[k].kind = "text"

\* The characters of a tag-free input.
PlainText(toks) == IF toks = <<>> THEN <<>> ELSE toks[1].text

\* C14 (as claimed): every tag-free input string comes back as exactly one
\* segment, its text the input and its style the default style.
PlainTextOneSegment ==
  (pc = "done" /\ html.isString /\ TagFree(html.tokens)) =>
    /\ Len(result.segments) = 1
    /\ result.segments[1].text = PlainText(html.tokens)
    /\ result.segments[1].style = getDefaultStyle

\* C14 (amended): a tag-free input with a non-whitespace character comes
\* back as exactly one segment, its text the input unchanged and its style
\* the default style; a blank or empty tag-free input gives no segment.
NonBlankPlainTextOneSegment ==
  (pc = "done" /\ html.isString /\ TagFree(html.tokens)) =>
    /\ result.returned /\ ~result.fallback
    /\ IF IsBlank(PlainText(html.tokens))
       THEN result.segments = <<>>
       ELSE /\ Len(result.segments) = 1
            /\ result.segments[1].text = PlainText(html.tokens)
            /\ result.segments[1].style = getDefaultStyle

\* C14 witness: a plain text with leading whitespace has been parsed.
PlainTextParsed ==
  /\ pc = "done"
  /\ html = Str(<<Text(T_x)>>)
  /\ Len(result.segments) = 1
  /\ result.segments[1].text = T_x

\* Whether token k is a closing tag that does not close the most recently
\* opened tag that is still open.
Mismatched(toks, k) ==
  /\ toks[k].kind = "close"
  /\ LET open == StillOpen(SubSeq(toks, 1, k - 1), <<>>)
     IN open = <<>> \/ open[Len(open)] # ToLowerCase(toks[k].name)

IsTextRun(tok) == tok.kind = "text" /\ ~IsBlank(tok.text)
IsContent(seg) == seg.text # Marker /\ seg.spacingContext # "list-prefix"

MaxCaseTokens == 3

\* The ways a tag name can be written: the tag pattern accepts both cases
\* of every letter.
Casings(n) ==
  CASE n = "b" -> {"b", "B"}
    [] n = "strong" -> {"strong", "STRONG"}
    [] n = "li" -> {"li", "LI", "Li"}
    [] n = "boom" -> {"boom", "BOOM"}
    [] n = "zzz" -> {"zzz", "Zzz"}
    [] OTHER -> {n}

\* The inputs that differ from the given one only in the letter case of
\* tag names.
RECURSIVE Recasings(_)
Recasings(toks) ==
  IF toks = <<>> THEN {<<>>}
  ELSE {<<[Head(toks) EXCEPT !.name = c]>> \o r :
          c \in Casings(Head(toks).name), r \in Recasings(Tail(toks))}

CaseAlphabet ==
  {Open("b", NoAttrs), Close("b"), Open("li", NoAttrs), Open("boom", NoAttrs), Text(T_x)}

CaseRegistries == {CustomRegistry, RegistryWithoutBold}

\* A parser about to parse an input written in lower case.
InitCase ==
  /\ registry \in CaseRegistries
  /\ html \in {Str(t) : t \in {u \in SeqsUpTo(CaseAlphabet, MaxCaseTokens) : Splittable(u)}}
  /\ pre = EmptyRegistry
  /\ call = NoCall
  /\ pc = "ready"
  /\ idx = 0
  /\ styleStack = <<>>
  /\ currentStyle = getDefaultStyle
  /\ segments = <<>>
  /\ errors = <<>>
  /\ validation = Valid
  /\ isInListItem = FALSE
  /\ listItemPrefixAdded = FALSE
  /\ listStack = <<>>
  /\ listCounters = [k \in {} |-> 0]
  /\ result = NoResult
  /\ hist = <<>>
  /\ IdleLayout

\* parseHTML is called with the same input in another casing of its tag
\* names; call keeps the first input and what the first call returned.
parseRecased ==
  /\ pc = "done"
  /\ call.op = "none"
  /\ \E toks \in Recasings(html.tokens) : html' = Str(toks)
  /\ call' = [op |-> "parseRecased", arg |-> html, strategy |-> "",
              ret |-> [result |-> result, validation |-> validation]]
  /\ pc' = "ready"
  /\ idx' = 0
  /\ styleStack' = <<>>
  /\ currentStyle' = getDefaultStyle
  /\ segments' = <<>>
  /\ errors' = <<>>
  /\ validation' = Valid
  /\ isInListItem' = FALSE
  /\ listItemPrefixAdded' = FALSE
  /\ result' = NoResult
  /\ hist' = <<>>
  /\ UNCHANGED <<registry, pre, listStack, listCounters, layVars>>

NextCase == parseHTML \/ WalkText \/ WalkClose \/ WalkOpen \/ ParseReturn \/ parseRecased

SpecCase == InitCase /\ [][NextCase]_vars

\* The names asked of the registry, in lower case.
CaseNames == {"b", "strong", "li", "boom", "zzz"}

\* getStrategy, isSupported and removeStrategy do not tell the casings of a
\* name apart, and isSupported holds exactly where getStrategy finds a
\* handler.
RegistryIgnoresCase ==
  \A n \in CaseNames : \A c \in Casings(n) :
    /\ getStrategy(registry, c) = getStrategy(registry, n)
    /\ isSupported(registry, c) = isSupported(registry, n)
    /\ RemoveStrategy(registry, c) = RemoveStrategy(registry, n)
    /\ RemoveStrategyResult(registry, c) = RemoveStrategyResult(registry, n)
    /\ isSupported(registry, c) <=> (getStrategy(registry, c) # "")

\* Both casings of the input have been parsed.
BothCasingsParsed == pc = "done" /\ call.op = "parseRecased"

\* C20 (as claimed): the registry ignores letter case, and parseHTML and
\* validateHTML return the same segments and errors for two inputs that
\* differ only in the letter case of tag names.
CaseInsensitiveEverywhere ==
  /\ RegistryIgnoresCase
  /\ BothCasingsParsed =>
       /\ validation = call.ret.validation
       /\ result.errors = call.ret.result.errors
       /\ result.segments = call.ret.result.segments

\* C20 (amended): the registry ignores letter case; for two inputs that
\* differ only in the letter case of tag names validateHTML returns the
\* same result and parseHTML the same errors, and parseHTML returns the
\* same segments unless it returns its fallback, whose one segment is the
\* input as it is written.
CaseInsensitiveButFallback ==
  /\ RegistryIgnoresCase
  /\ BothCasingsParsed =>
       /\ validation = call.ret.validation
       /\ result.errors = call.ret.result.errors
       /\ result.fallback = call.ret.result.fallback
       /\ IF result.fallback
          THEN /\ result.segments = <<Seg(html, getDefaultStyle)>>
               /\ call.ret.result.segments = <<Seg(call.arg, getDefaultStyle)>>
          ELSE result.segments = call.ret.result.segments

\* C20 witness: '<b> x</b>' and '<B> x</b>' have both been parsed by the
\* walk, each giving the bold segment.
UpperCaseBoldParsed ==
  /\ BothCasingsParsed
  /\ registry = CustomRegistry
  /\ call.arg = Str(<<Open("b", NoAttrs), Text(T_x), Close("b")>>)
  /\ html = Str(<<Open("B", NoAttrs), Text(T_x), Close("b")>>)
  /\ ~result.fallback
  /\ Len(result.segments) = 1
  /\ result.segments[1].style.fontWeight = "bold"

(***************************************************************************)
(* Parser properties: well-formed inputs                                   *)
(***************************************************************************)
\* The elements of HTML that have no closing tag.
VoidElements == {"br", "hr", "img", "input", "meta", "link"}

\* Whether every closing tag of the first k tokens closed the innermost
\* open element, and the elements still open; a void element is never open.
RECURSIVE ScanElements(_, _)
ScanElements(toks, k) ==
  IF k = 0 THEN [ok |-> TRUE, open |-> <<>>]
  ELSE LET p == ScanElements(toks, k - 1)
           tok == toks[k]
       IN IF ~p.ok THEN p
          ELSE CASE tok.kind = "open" /\ tok.name \notin VoidElements ->
                      [ok |-> TRUE, open |-> Append(p.open, tok.name)]
                 [] tok.kind = "close" ->
                      IF p.open # <<>> /\ p.open[Len(p.open)] = tok.name
                      THEN [ok |-> TRUE, open |-> SubSeq(p.open, 1, Len(p.open) - 1)]
                      ELSE [ok |-> FALSE, open |-> <<>>]
                 [] OTHER -> p

ProperlyClosed(toks) ==
  ScanElements(toks, Len(toks)).ok /\ ScanElements(toks, Len(toks)).open = <<>>

\* An input whose tags are supported, nested, closed and carry attributes
\* their handlers accept.
WellFormed(h, reg) ==
  /\ h.isString
  /\ ProperlyClosed(h.tokens)
  /\ \A k \in 1..Len(h.tokens) :
       h.tokens[k].kind = "open" =>
         isSupported(reg, h.tokens[k].name) /\ ~AttrFailure(h.tokens[k], reg)

UnsupportedPairKeepsStack ==
  html.isString =>
    \A j \in 1..Len(hist) :
      /\ (/\ html.tokens[j].kind = "open"
          /\ ~isSupported(registry, html.tokens[j].name))
         => /\ hist[j].depth = Before(j).depth
            /\ hist[j].style = Before(j).style
      /\ (/\ html.tokens[j].kind = "close"
          /\ ~isSupported(registry, html.tokens[j].name)
          /\ ScanNest(html.tokens, j).ok)
         => /\ hist[j].depth = Before(j).depth
            /\ hist[j].style = Before(MatchingOpen(html.tokens, j)).style

\* C24: during the walk the style stack is never empty and its bottom
\* frame is the default style; a closing tag met with only that frame on
\* the stack pops nothing and leaves the current style as it is.
StackHoldsDefaultFrame ==
  /\ pc = "walk" => (Len(styleStack) >= 1 /\ styleStack[1] = getDefaultStyle)
  /\ html.isString =>
       \A j \in 1..Len(hist) :
         (html.tokens[j].kind = "close" /\ Before(j).depth = 1)
         => /\ hist[j].depth = 1
            /\ hist[j].style = Before(j).style

\* C24 witness: in '<b></b></b>hi' the second </b> met the default frame
\* alone, and the text after it has the default style.
SurplusClosingTagParsed ==
  /\ pc = "done"
  /\ html = Str(<<Open("b", NoAttrs), Close("b"), Close("b"), Text(T_hi)>>)
  /\ hist[2].depth = 1
  /\ hist[3].depth = 1
  /\ Len(result.segments) = 1
  /\ result.segments[1].style = getDefaultStyle

(***************************************************************************)
(* Parser properties: line breaks around blocks                            *)
(***************************************************************************)
\* The segments emitted before token j was met.
SegmentsBefore(j) == SubSeq(segments, 1, Before(j).nseg)

HeadingNames == {"h1", "h2", "h3", "h4", "h5", "h6"}

\* C25 (as claimed): the opening tag of a paragraph or heading met after a
\* non-blank segment that is no marker emits a marker and then pushes the
\* block's frame.
BlockOpeningBreaksLine ==
  html.isString =>
    \A j \in 1..Len(hist) :
      (/\ html.tokens[j].kind = "open"
       /\ ToLowerCase(html.tokens[j].name) \in {"p"} \cup HeadingNames
       /\ isSupported(registry, html.tokens[j].name)
       /\ needsLineBreak(SegmentsBefore(j)))
      => /\ hist[j].nseg = Before(j).nseg + 1
         /\ segments[hist[j].nseg].text = Marker
         /\ hist[j].depth = Before(j).depth + 1

\* Whether non-blank text follows token j.
TextFollows(toks, j) ==
  \E k \in (j + 1)..Len(toks) : toks[k].kind = "text" /\ ~IsBlank(toks[k].text)

\* C26 (as claimed): the closing tag of a block emits a marker only if
\* non-blank text follows it in the input, so the returned segments never
\* end with a marker.
ClosingBlockMarkerOnlyBeforeText ==
  html.isString =>
    \A j \in 1..Len(hist) :
      (/\ html.tokens[j].kind = "close"
       /\ isBlockElement(ToLowerCase(html.tokens[j].name))
       /\ hist[j].nseg > Before(j).nseg)
      => TextFollows(html.tokens, j)

(***************************************************************************)
(* Parser properties: list items                                           *)
(***************************************************************************)
\* The list containers open before token k, innermost last.
RECURSIVE OpenLists(_, _)
OpenLists(toks, k) ==
  IF k <= 1 THEN <<>>
  ELSE LET p == OpenLists(toks, k - 1)
           tok == toks[k - 1]
           n == ToLowerCase(tok.name)
       IN CASE tok.kind = "open" /\ n \in {"ul", "ol"} -> Append(p, n)
            [] tok.kind = "close" /\ n \in {"ul", "ol"} /\ p # <<>> ->
                 SubSeq(p, 1, Len(p) - 1)
            [] OTHER -> p

IsTag(tok, kind, n) == tok.kind = kind /\ ToLowerCase(tok.name) = n

\* Token j is the first non-blank text of the list item opened at i.
FirstTextOfItem(toks, i, j) ==
  /\ i < j
  /\ IsTag(toks[i], "open", "li")
  /\ toks[j].kind = "text" /\ ~IsBlank(toks[j].text)
  /\ \A k \in (i + 1)..(j - 1) :
       /\ ~IsTag(toks[k], "close", "li")
       /\ ~IsTag(toks[k], "open", "li")
       /\ toks[k].kind = "text" => IsBlank(toks[k].text)

\* The bullet U+2022 followed by a space, and the prefixes "1. " to "9. ".
BulletPrefix == <<"bullet", " ">>
NumberPrefixes == {<<DigitChar(n), ".", " ">> : n \in 1..9}

\* C27 (as claimed): the first non-blank text of a list item adds two
\* segments: the prefix (the bullet under ul, a number under ol) with the
\* default weight, slant, decoration and colour, then the text without its
\* leading whitespace in the current style.
ListItemPrefixThenContent ==
  (html.isString /\ isSupported(registry, "li") /\ getStrategy(registry, "li") = "List") =>
    \A j \in 1..Len(hist) : \A i \in 1..(j - 1) :
      (/\ FirstTextOfItem(html.tokens, i, j)
       /\ ScanNest(html.tokens, j).ok
       /\ OpenLists(html.tokens, i) # <<>>)
      => LET parent == OpenLists(html.tokens, i)[Len(OpenLists(html.tokens, i))]
             first == Before(j).nseg + 1
         IN /\ hist[j].nseg = first + 1
            /\ segments[first].text \in
                 (IF parent = "ul" THEN {BulletPrefix} ELSE NumberPrefixes)
            /\ segments[first].style.fontWeight = getDefaultStyle.fontWeight
            /\ segments[first].style.fontStyle = getDefaultStyle.fontStyle
            /\ segments[first].style.textDecoration = getDefaultStyle.textDecoration
            /\ segments[first].style.color = getDefaultStyle.color
            /\ segments[first + 1].text = trimStart(html.tokens[j].text)
            /\ segments[first + 1].style = Before(j).style

\* The position of the innermost tag open at token j, or 0.
Enclosing(toks, j) ==
  LET st == ScanNest(toks, j - 1).stack
  IN IF st = <<>> THEN 0 ELSE st[Len(st)]

\* Token j is non-blank text standing directly in the element opened at i.
OwnText(toks, i, j) ==
  /\ toks[j].kind = "text" /\ ~IsBlank(toks[j].text)
  /\ Enclosing(toks, j) = i

\* C28 (as claimed): in a well-formed input every list item gets its one
\* prefix segment right before the first text it holds directly: that
\* text adds the prefix and itself, every later text of the item adds only
\* itself.
EachItemOnePrefix ==
  (html.isString /\ WellNested(html.tokens)) =>
    \A j \in 1..Len(hist) :
      LET i == Enclosing(html.tokens, j)
      IN (/\ i # 0
          /\ IsTag(html.tokens[i], "open", "li")
          /\ OwnText(html.tokens, i, j))
         => IF \A k \in (i + 1)..(j - 1) : ~OwnText(html.tokens, i, k)
            THEN /\ hist[j].nseg = Before(j).nseg + 2
                 /\ segments[Before(j).nseg + 1].spacingContext = "list-prefix"
            ELSE hist[j].nseg = Before(j).nseg + 1

\* The number of list items standing directly in the list opened at p, up
\* to and including token i.
ItemNumber(toks, p, i) ==
  Cardinality({m \in (p + 1)..i :
                 IsTag(toks[m], "open", "li") /\ Enclosing(toks, m) = p})

\* C29: in a well-formed input a prefix emitted for an item of an ordered
\* list reads 'k. ' where the item is the k-th item standing directly in
\* that list: nested lists count from 1 and the outer list goes on counting
\* after them.
OrderedItemsNumbered ==
  (html.isString /\ WellNested(html.tokens)) =>
    \A j \in 1..Len(hist) :
      LET i == Enclosing(html.tokens, j)
          p == IF i = 0 THEN 0 ELSE Enclosing(html.tokens, i)
      IN (/\ i # 0 /\ p # 0
          /\ IsTag(html.tokens[i], "open", "li")
          /\ IsTag(html.tokens[p], "open", "ol")
          /\ OwnText(html.tokens, i, j)
          /\ hist[j].nseg = Before(j).nseg + 2)
         => segments[Before(j).nseg + 1].text
              = <<DigitChar(ItemNumber(html.tokens, p, i)), ".", " ">>

\* C29 witness: '<ol><li> x<ol><li> x</li><li> x</li></ol></li><li> x</li></ol>'
\* has been parsed into the prefixes 1, 1, 2 and 2.
NestedOrderedListParsed ==
  /\ pc = "done"
  /\ html = Str(<<Open("ol", NoAttrs), Open("li", NoAttrs), Text(T_x), Open("ol", NoAttrs)>>
                \o LeafItem \o LeafItem
                \o <<Close("ol"), Close("li")>> \o LeafItem \o <<Close("ol")>>)
  /\ LET prefixes == SelectSeq(result.segments, LAMBDA s : s.spacingContext = "list-prefix")
     IN /\ Len(prefixes) = 4
        /\ prefixes[1].text = <<"1", ".", " ">>
        /\ prefixes[2].text = <<"1", ".", " ">>
        /\ prefixes[3].text = <<"2", ".", " ">>
        /\ prefixes[4].text = <<"2", ".", " ">>

(***************************************************************************)
(* Layout properties: vertical placement                                   *)
(***************************************************************************)
\* C30 (as claimed): fragments pushed with no line advance between them
\* end at the same bottom edge, and a fragment that was not word-wrapped
\* sits at currentY + (max(line height, its height) - its height).
SameLineSameBottom ==
  /\ \A f, g \in 1..Len(positioned) :
       positioned[f].lineY = positioned[g].lineY
         => BottomEdge(f) = BottomEdge(g)
  /\ \A f \in 1..Len(positioned) :
       ~positioned[f].wrapped
         => positioned[f].y = positioned[f].lineY
                                + (Max(engine.lineHeight, positioned[f].height)
                                   - positioned[f].height)

(***************************************************************************)
(* Layout properties: headings, markers, overlap, words                    *)
(***************************************************************************)
\* The iteration of layoutSegments' loop that is taken lays out a heading.
HeadingStep ==
  /\ LayingOut
  /\ idx' = idx + 1
  /\ Len(positioned') > Len(positioned)
  /\ layIn.segments[idx + 1].text # Marker
  /\ isHeadingStyle(layIn.segments[idx + 1].style)

\* C31 (as claimed): the iteration on a heading leaves the cursor at the
\* line start, 1.2 x the line height of the heading below the line of the
\* heading's last fragment, whether the heading was word-wrapped or not.
HeadingEndsLine ==
  [][HeadingStep =>
       LET last == positioned'[Len(positioned')]
       IN /\ cursor'.x = engine.startX
          /\ cursor'.y = last.lineY + (Max(engine.lineHeight, last.height) * 6) \div 5]_vars

\* The fragments come from segments that are no markers, in input order.
FragmentsOfTextSegments(frags) ==
  /\ \A f \in 1..Len(frags) : layIn.segments[frags[f].src].text # Marker
  /\ \A f, g \in 1..Len(frags) : f < g => frags[f].src <= frags[g].src

\* C32: the iteration on a line-break marker adds no fragment, puts the
\* cursor at startX and moves it down by one configured line height; every
\* iteration keeps the fragments pushed before it, and the fragments are
\* those of the segments that are no markers, in input order.
MarkerOnlyMovesCursor ==
  [][(LayingOut /\ idx' = idx + 1) =>
       /\ layIn.segments[idx + 1].text = Marker =>
            /\ positioned' = positioned
            /\ cursor'.x = engine.startX
            /\ cursor'.y = cursor.y + engine.lineHeight
       /\ Len(positioned') >= Len(positioned)
       /\ SubSeq(positioned', 1, Len(positioned)) = positioned
       /\ FragmentsOfTextSegments(positioned')]_vars

\* C32 witness: of 'a', '\n' the marker has left the one fragment alone and
\* the cursor at the start of the next line.
MarkerLaidOut ==
  /\ pc = "laid"
  /\ layIn.segments = <<Seg(<<"a">>, getDefaultStyle), Seg(Marker, getDefaultStyle)>>
  /\ Len(positioned) = 1
  /\ positioned[1].src = 1
  /\ cursor = [x |-> engine.startX, y |-> engine.startY + engine.lineHeight]

\* The boxes [x, x + width) x [y, y + height) of fragments f and g meet.
Overlap(f, g) ==
  /\ positioned[f].x < RightEdge(g) /\ positioned[g].x < RightEdge(f)
  /\ positioned[f].y < BottomEdge(g) /\ positioned[g].y < BottomEdge(f)

\* C33 (as claimed): no two fragments of a layout overlap.
NoTwoFragmentsOverlap ==
  \A f, g \in 1..Len(positioned) : f < g => ~Overlap(f, g)

\* The words of the fragments of segment k, in the order of the fragments.
RECURSIVE WordsOfFragments(_, _)
WordsOfFragments(frags, k) ==
  IF frags = <<>> THEN <<>>
  ELSE (IF Head(frags).src = k
        THEN SelectSeq(split(Head(frags).text), LAMBDA w : w # <<>>)
        ELSE <<>>) \o WordsOfFragments(Tail(frags), k)

\* The segments the word loop has cut up.
WordWrapped(k) ==
  /\ k <= idx
  /\ layIn.segments[k].text # Marker
  /\ measureText(layIn.segments[k].text, layIn.segments[k].style, engine).width
       > wrapWidthOf(layIn.maxWidth)
  /\ includesSpace(layIn.segments[k].text)

\* C34: the fragments of a word-wrapped segment hold exactly its non-empty
\* words in their order, and each fragment has the segment's style.
WrapKeepsWordsAndStyle ==
  \A k \in 1..Len(layIn.segments) :
    WordWrapped(k) =>
      /\ WordsOfFragments(positioned, k)
           = SelectSeq(split(layIn.segments[k].text), LAMBDA w : w # <<>>)
      /\ \A f \in 1..Len(positioned) :
           positioned[f].src = k => positioned[f].style = layIn.segments[k].style

\* A segment of two words is laid out on two lines.
SegmentWrappedInTwo ==
  /\ pc = "laid"
  /\ \E k \in 1..Len(layIn.segments) :
       /\ WordWrapped(k)
       /\ Len(WordsOfFragments(positioned, k)) = 2
       /\ \E f, g \in 1..Len(positioned) :
            f < g /\ positioned[f].src = k /\ positioned[g].src = k

(***************************************************************************)
(* Parser properties: emitted text, error counts, style domains            *)
(***************************************************************************)
\* C35 (as claimed): every segment parseHTML returns from its walk is a
\* line-break marker or has non-blank text.
NoBlankSegmentReturned ==
  (pc = "done" /\ result.returned /\ ~result.fallback) =>
    \A k \in 1..Len(result.segments) :
      result.segments[k].text = Marker \/ ~IsBlank(result.segments[k].text)

\* The positions of the unsupported opening tags of an input, and the
\* positions of the 'Unsupported tag' entries of an error list.
UnsupportedOpenings(h, reg) ==
  {j \in 1..Len(h.tokens) :
     h.tokens[j].kind = "open" /\ ~isSupported(reg, ToLowerCase(h.tokens[j].name))}

UnsupportedEntries(errs) ==
  {k \in 1..Len(errs) : errs[k].kind = "Unsupported tag"}

\* C36 (as claimed): the error list parseHTML returns from its walk has one
\* 'Unsupported tag' entry for each unsupported opening tag of the input.
OneErrorPerUnsupportedTag ==
  (pc = "done" /\ result.returned /\ ~result.fallback) =>
    Cardinality(UnsupportedEntries(result.errors))
      = Cardinality(UnsupportedOpenings(html, registry))

\* The four mandatory fields of a style are defined and within their domains.
InDomain(st) ==
  /\ st.fontWeight \in {"normal", "bold"}
  /\ st.fontStyle \in {"normal", "italic"}
  /\ st.textDecoration \in {"none", "underline", "line-through"}
  /\ st.color # ""

\* Every handler the input's tags reach is a built-in one.
OnlyBuiltInHandlers ==
  \A j \in 1..Len(html.tokens) :
    html.tokens[j].kind = "open" =>
      getStrategy(registry, ToLowerCase(html.tokens[j].name)) \in BuiltInStrategies \cup {""}

\* The frames and segments there were before a step of the walk are the
\* same after it.
FramesAndSegmentsKept ==
  /\ \A k \in 1..Len(styleStack) : k <= Len(styleStack') => styleStack'[k] = styleStack[k]
  /\ Len(segments') >= Len(segments)
  /\ SubSeq(segments', 1, Len(segments)) = segments

\* C37: with the built-in handlers every frame, and every segment emitted
\* and returned, has its four mandatory style fields within their domains,
\* and no step of the walk changes a frame already on the stack or a
\* segment already emitted.
StylesWithinDomains ==
  /\ [](OnlyBuiltInHandlers =>
          /\ \A k \in 1..Len(styleStack) : InDomain(styleStack[k])
          /\ \A k \in 1..Len(segments) : InDomain(segments[k].style)
          /\ \A k \in 1..Len(result.segments) : InDomain(result.segments[k].style))
  /\ [][(pc = "walk" /\ pc' = "walk") => FramesAndSegmentsKept]_vars

\* C37 witness: '<span style="font-style: oblique; text-decoration:
\* overline; font-weight: 500"><s>hi' is returned as one italic,
\* struck-through segment of normal weight.
ObliqueSpanParsed ==
  /\ pc = "done"
  /\ html = Str(<<Open("span", StyleOblique), Open("s", NoAttrs), Text(T_hi)>>)
  /\ Len(result.segments) = 1
  /\ result.segments[1].style.fontStyle = "italic"
  /\ result.segments[1].style.textDecoration = "line-through"
  /\ result.segments[1].style.fontWeight = "normal"

(***************************************************************************)
(* SpanTagStrategy on a style attribute                                    *)
(***************************************************************************)
\* The most declarations of a style attribute of the span runs.
MaxDecls == 2

\* The declarations of the span runs: the four properties the handler
\* knows, one of them twice and once in capitals, and two it does not know.
SpanDecls ==
  { Decl("color", "red"), Decl("color", "blue"), Decl("COLOR", "blue"),
    Decl("font-weight", "bold"), Decl("font-style", "italic"),
    Decl("text-decoration", "underline"),
    Decl("background-color", "yellow"), Decl("margin", "0") }

SpanAttrs == {Attr("<none>", ds) : ds \in SeqsUpTo(SpanDecls, MaxDecls)}

InitSpan ==
  /\ registry = EmptyRegistry
  /\ pre = EmptyRegistry
  /\ call = NoCall
  /\ html \in {Str(<<Open("span", a)>>) : a \in SpanAttrs}
  /\ pc = "span"
  /\ idx = 0
  /\ styleStack = <<>>
  /\ currentStyle \in {getDefaultStyle, StyledStyle}
  /\ segments = <<>>
  /\ errors = <<>>
  /\ validation = Valid
  /\ isInListItem = FALSE
  /\ listItemPrefixAdded = FALSE
  /\ listStack = <<>>
  /\ listCounters = [k \in {} |-> 0]
  /\ result = NoResult
  /\ hist = <<>>
  /\ IdleLayout

\* new SpanTagStrategy().validateAttributes(attributes).
spanValidateAttributes ==
  /\ pc = "span"
  /\ validation' = validateAttributes("Span", html.tokens[1].attrs)
  /\ pc' = "spanValidated"
  /\ UNCHANGED <<regVars, layVars, html, idx, styleStack, currentStyle, segments, errors,
                 isInListItem, listItemPrefixAdded, listStack, listCounters, result, hist>>

\* new SpanTagStrategy().applyStyle(currentStyle, attributes): call.ret is
\* the style returned.
spanApplyStyle ==
  /\ pc = "spanValidated"
  /\ call' = [op |-> "applyStyle", arg |-> "span", strategy |-> "Span",
              ret |-> applyStyle("Span", currentStyle, html.tokens[1].attrs, "span")]
  /\ pc' = "spanApplied"
  /\ UNCHANGED <<registry, pre, layVars, parseVars>>

NextSpan == spanValidateAttributes \/ spanApplyStyle

SpecSpan == InitSpan /\ [][NextSpan]_vars

\* The properties the handler is said to recognize, and the first
\* declaration of each when names are compared without regard to case.
RecognizedProperties == {"color", "font-weight", "font-style", "text-decoration"}

FirstNamed(key, decls) ==
  LET hits == {k \in 1..Len(decls) : ToLowerCase(decls[k].prop) = key}
  IN IF hits = {} THEN 0 ELSE CHOOSE k \in hits : \A j \in hits : k <= j

\* The style the recognized declarations name: each field from the first
\* declaration of its property, every other field as it was.
NamedStyle(decls, style) ==
  LET c == FirstNamed("color", decls)
      w == FirstNamed("font-weight", decls)
      s == FirstNamed("font-style", decls)
      t == FirstNamed("text-decoration", decls)
  IN [style EXCEPT
        !.color = IF c = 0 THEN @ ELSE decls[c].value,
        !.fontWeight = IF w = 0 THEN @
                       ELSE IF decls[w].value \in {"bold", "600", "700", "800", "900"}
                            THEN "bold" ELSE "normal",
        !.fontStyle = IF s = 0 THEN @
                      ELSE IF decls[s].value \in {"italic", "oblique"}
                           THEN "italic" ELSE "normal",
        !.textDecoration = IF t = 0 THEN @
                           ELSE IF decls[t].value \in {"underline", "underline dotted"}
                                THEN "underline" ELSE "none"]

\* C38 (as claimed): validateAttributes reports one 'Unsupported CSS
\* property' error for each declaration of an unrecognized property, and
\* applyStyle returns the style with exactly the fields of the recognized
\* declarations set, names compared without regard to case and the first
\* declaration of a property winning; an unrecognized declaration changes
\* no field.
SpanSetsExactlyRecognized ==
  pc = "spanApplied" =>
    LET decls == html.tokens[1].attrs.style
    IN /\ Cardinality({k \in 1..Len(validation.errors) :
                         validation.errors[k].kind = "Unsupported CSS property"})
            = Cardinality({k \in 1..Len(decls) :
                             ToLowerCase(decls[k].prop) \notin RecognizedProperties})
       /\ call.ret = NamedStyle(decls, currentStyle)

====
